---- MODULE Spec2Model ----
(***************************************************************************)
(* Patch-DAG synchronisation core: PatchGraph (DAG, replay, caches),       *)
(* Session (commit / applyRemote / undo / redo / working copy / file       *)
(* mirror queue) and the table codec restricted to key-only records.       *)
(*                                                                         *)
(* Patch ids ("time") are naturals; comparePatchId is < on them.           *)
(* A document is the set of primary keys of its records; its string form   *)
(* is the sorted list of those keys (one JSON line per record, sorted).    *)
(* An optional value is a sequence of length 0 (undefined) or 1.           *)
(***************************************************************************)
EXTENDS Integers, Sequences, FiniteSets, TLC

\* ------------------------------------------------------------------ bounds
NumKeys == 2          \* primary-key values a record may carry
MaxId == 4            \* patch ids offered when a PatchGraph is only built
GraphMaxId == 3       \* patch ids offered to a PatchGraph that also answers calls
MaxParents == 2       \* parents per offered patch
ParentSpan == 2       \* an offered patch names parents among the ParentSpan ids below it
MaxSnapshots == 2     \* snapshot nodes in a stand-alone PatchGraph
MsPerTick == 1500     \* milliseconds between two consecutive model ids
NumSessions == 2      \* sessions attached to one patch store
MaxTime == 3          \* greatest logical time a session may reach
MaxClock == 2         \* the injected clock returns 0 or MaxClock
MaxLog == 3           \* envelopes the patch store may hold
MaxNotes == 1         \* file-change notifications pending at the watcher
MaxReads == 1         \* fileAdapter.read calls awaited at once
MaxExternals == 1     \* modifications of the file by somebody else
MaxFailures == 1      \* fileAdapter.write calls that reject
MaxFlights == 2       \* fileAdapter.write calls looked at for being unsettled
MaxFileLog == 2       \* envelopes in the store when somebody else modifies the file
DedupMaxId == 4       \* patch ids offered to a PatchGraph that receives file loads
ReplayMaxId == 5      \* patch ids offered, in id order, to a PatchGraph without snapshots
MaxVersion == 4       \* greatest version number carried by a patch of a truncated history
LookupMaxId == 2      \* patch ids added to a PatchGraph that is asked for ids up to GraphMaxId
AncestorsMaxId == 3   \* patch ids of the graphs getAncestors is called on
MaxStack == 6         \* entries on the stack of getAncestors before the walk is given up as endless

Keys == 1..NumKeys
Docs == SUBSET Keys

\* ------------------------------------------------------- program constants
DEFAULT_DEDUP_TOLERANCE == 3000

\* ----------------------------------------------------------------- helpers
None == <<>>
Some(x) == <<x>>
Range(s) == {s[i] : i \in DOMAIN s}
Put(f, k, v) == [x \in (DOMAIN f) \cup {k} |-> IF x = k THEN v ELSE f[x]]
EmptyMap == [x \in {} |-> 0]

RECURSIVE InsertSorted(_, _)
InsertSorted(x, s) ==
  IF s = <<>> THEN <<x>>
  ELSE IF x <= Head(s) THEN <<x>> \o s
  ELSE <<Head(s)>> \o InsertSorted(x, Tail(s))

RECURSIVE SortAscending(_)
SortAscending(s) ==
  IF s = <<>> THEN <<>> ELSE InsertSorted(Head(s), SortAscending(Tail(s)))

\* ids.sort(comparePatchId)
SortTimesUnsorted(s) == s
SortTimes(s) == SortAscending(s)

RECURSIVE SetToSeq(_)
SetToSeq(S) ==
  IF S = {} THEN <<>>
  ELSE LET m == CHOOSE x \in S : \A y \in S : x <= y
       IN <<m>> \o SetToSeq(S \ {m})

\* decodePatchId(id).timeMs
decodeTimeMs(id) == id * MsPerTick

\* ------------------------------------------------------------- table codec
\* A patch body: [-1, [{}]] (clear every record) or
\* [-1, deletes, 1, adds]; the array is empty when del = add = {}.
ClearBody == [clear |-> TRUE, del |-> {}, add |-> {}]
OpsBody(d, a) == [clear |-> FALSE, del |-> d, add |-> a]

fromString(text) == Range(text)
toString(doc) == SetToSeq(doc)
isEqual(a, b) == a = b

makePatch(a, b) ==
  IF Cardinality(b) = 0 THEN ClearBody ELSE OpsBody(a \ b, b \ a)

applyPatch(doc, body) ==
  IF body.clear THEN {} ELSE (doc \ body.del) \cup body.add

RECURSIVE applyPatchBatch(_, _)
applyPatchBatch(doc, bodies) ==
  IF bodies = <<>> THEN doc
  ELSE applyPatchBatch(applyPatch(doc, Head(bodies)), Tail(bodies))

\* List(a).equals(List(b)): element-wise Immutable.is, which compares the
\* nested payload arrays by reference.
BodyListEquals(p, q) ==
  \/ p.ref = q.ref /\ p.patch = q.patch
  \/ /\ p.patch = Some(OpsBody({}, {}))
     /\ q.patch = Some(OpsBody({}, {}))

\* -------------------------------------------------------------- PatchGraph
EmptyGraph ==
  [patches |-> <<>>, children |-> EmptyMap, valueCache |-> EmptyMap,
   reachabilityCache |-> EmptyMap, mergeCache |-> EmptyMap,
   versionsCache |-> None]

Times(G) == {G.patches[i].time : i \in DOMAIN G.patches}
Has(G, t) == t \in Times(G)
IndexOf(G, t) == CHOOSE i \in DOMAIN G.patches : G.patches[i].time = t
Get(G, t) == G.patches[IndexOf(G, t)]

Truthy(optText) == optText # None /\ optText[1] # <<>>

RECURSIVE addChildren(_, _, _)
addChildren(children, parents, t) ==
  IF parents = <<>> THEN children
  ELSE LET p == Head(parents)
           kids == IF p \in DOMAIN children THEN children[p] ELSE {}
       IN addChildren(Put(children, p, kids \cup {t}), Tail(parents), t)

addOne(G, patch) ==
  IF Has(G, patch.time)
  THEN LET existing == Get(G, patch.time)
       IN IF patch.isSnapshot /\ patch.snapshot # None /\ ~Truthy(existing.snapshot)
          THEN [G EXCEPT !.patches[IndexOf(G, patch.time)] =
                  [existing EXCEPT !.isSnapshot = TRUE, !.snapshot = patch.snapshot]]
          ELSE G
  ELSE [G EXCEPT !.patches = Append(@, patch),
                 !.children = addChildren(@, patch.parents, patch.time)]

RECURSIVE addLoop(_, _)
addLoop(G, input) ==
  IF input = <<>> THEN G ELSE addLoop(addOne(G, Head(input)), Tail(input))

add(G, input) ==
  IF Len(input) = 0 THEN G
  ELSE [addLoop(G, input) EXCEPT !.reachabilityCache = EmptyMap,
                                 !.mergeCache = EmptyMap,
                                 !.versionsCache = None]

AllParents(G) == UNION {Range(G.patches[i].parents) : i \in DOMAIN G.patches}

getHeadsInserted(G) ==
  LET keys == [i \in DOMAIN G.patches |-> G.patches[i].time]
  IN SelectSeq(keys, LAMBDA t : t \notin AllParents(G))

getHeads(G) ==
  LET keys == [i \in DOMAIN G.patches |-> G.patches[i].time]
      parents == AllParents(G)
  IN SortTimes(SelectSeq(keys, LAMBDA t : t \notin parents))

\* versions(): the sorted ids, memoised in versionsCache.
versions(G) ==
  LET list == IF G.versionsCache # None THEN G.versionsCache[1]
              ELSE SortTimes([i \in DOMAIN G.patches |-> G.patches[i].time])
  IN [list |-> list, g |-> [G EXCEPT !.versionsCache = Some(list)]]

\* DFS over parents; a missing id is skipped, a snapshot node is not expanded.
\* The result lists the ids in the order the Set received them.
RECURSIVE knownTimesLoop(_, _, _)
knownTimesLoop(G, stack, seen) ==
  IF stack = <<>> THEN seen
  ELSE LET t == stack[Len(stack)]
           rest == SubSeq(stack, 1, Len(stack) - 1)
       IN IF t \in Range(seen) \/ ~Has(G, t) THEN knownTimesLoop(G, rest, seen)
          ELSE LET patch == Get(G, t)
                   expand == Len(patch.parents) > 0 /\ ~patch.isSnapshot
               IN knownTimesLoop(G, IF expand THEN rest \o patch.parents ELSE rest,
                                 Append(seen, t))

knownTimes(G, heads) == knownTimesLoop(G, heads, <<>>)

\* The snapshot node with the greatest id among times, if any.
latestSnapshot(G, times) ==
  LET snaps == {t \in Range(times) :
                  Has(G, t) /\ Get(G, t).isSnapshot /\ Get(G, t).snapshot # None}
  IN IF snaps = {} THEN None
     ELSE Some(Get(G, CHOOSE t \in snaps : \A u \in snaps : u <= t))

RECURSIVE dedupLoop(_, _, _)
dedupLoop(ordered, last, out) ==
  IF ordered = <<>> THEN out
  ELSE LET patch == Head(ordered)
       IN IF ~patch.file
          THEN dedupLoop(Tail(ordered), Some(patch), Append(out, patch))
          ELSE IF /\ last # None
                  /\ last[1].file
                  /\ last[1].patch # None
                  /\ patch.patch # None
                  /\ decodeTimeMs(patch.time) - decodeTimeMs(last[1].time)
                       <= DEFAULT_DEDUP_TOLERANCE
                  /\ BodyListEquals(patch, last[1])
               THEN dedupLoop(Tail(ordered), last, out)
               ELSE dedupLoop(Tail(ordered), Some(patch), Append(out, patch))

dedupFileLoads(ordered) ==
  IF Len(ordered) < 2 THEN ordered ELSE dedupLoop(ordered, None, <<>>)

\* Bodies of ordered[from..], skipping nodes that carry no body.
RECURSIVE bodiesFrom(_, _)
bodiesFrom(ordered, from) ==
  IF from > Len(ordered) THEN <<>>
  ELSE (IF ordered[from].patch = None THEN <<>> ELSE <<ordered[from].patch[1]>>)
       \o bodiesFrom(ordered, from + 1)

\* The greatest index i whose value-cache entry has count = i; 0 when none.
RECURSIVE seedIndex(_, _, _)
seedIndex(cache, ordered, i) ==
  IF i = 0 THEN 0
  ELSE IF /\ ordered[i].time \in DOMAIN cache
          /\ cache[ordered[i].time].count = i
       THEN i
       ELSE seedIndex(cache, ordered, i - 1)

\* The one-by-one replay that stores every intermediate document.
RECURSIVE applyCaching(_, _, _, _)
applyCaching(cache, doc, ordered, i) ==
  IF i > Len(ordered) THEN [doc |-> doc, cache |-> cache]
  ELSE IF ordered[i].patch = None THEN applyCaching(cache, doc, ordered, i + 1)
  ELSE LET next == applyPatch(doc, ordered[i].patch[1])
       IN applyCaching(Put(cache, ordered[i].time, [doc |-> next, count |-> i]),
                       next, ordered, i + 1)

MergeKey(headTimes) == SortTimes(headTimes)

\* applyAllValue, the reachable ids: taken from reachabilityCache on a hit,
\* else computed by knownTimes (and stored when the fast path asked for it).
reachFresh(G, head, useReach, known) ==
  [reachable |-> known,
   ordered |-> IF useReach THEN SortTimes(known) ELSE known,
   g |-> IF useReach
         THEN [G EXCEPT !.reachabilityCache =
                 Put(@, head, [reachable |-> known, ordered |-> SortTimes(known)])]
         ELSE G]

reachOf(G, headTimes, useReach) ==
  IF useReach /\ headTimes[1] \in DOMAIN G.reachabilityCache
  THEN [reachable |-> G.reachabilityCache[headTimes[1]].reachable,
        ordered |-> G.reachabilityCache[headTimes[1]].ordered,
        g |-> G]
  ELSE reachFresh(G, headTimes[1], useReach, knownTimes(G, headTimes))

\* applyAllValue, the replay list: the ids above the snapshot floor, as
\* patches sorted by id, file loads deduplicated.
replayTimes(source, snapshot) ==
  SortTimes(SelectSeq(source, LAMBDA t : snapshot = None \/ t > snapshot[1].time))

replayList(G, sorted) == dedupFileLoads([i \in DOMAIN sorted |-> Get(G, sorted[i])])

startingDoc(snapshot) ==
  IF snapshot # None THEN fromString(snapshot[1].snapshot[1]) ELSE fromString(<<>>)

\* applyAllValue, the end: the value cache and the merge cache are updated.
applyStore(G, headTimes, without, allowMergeCache, doc, cache) ==
  [doc |-> doc,
   g |-> IF allowMergeCache /\ Len(headTimes) > 1 /\ Cardinality(without) = 0
         THEN [G EXCEPT !.valueCache = cache,
                        !.mergeCache = Put(@, MergeKey(headTimes), doc)]
         ELSE [G EXCEPT !.valueCache = cache]]

applyBatch(G, headTimes, without, useCache, allowMergeCache, ordered, bodies, doc) ==
  applyStore(G, headTimes, without, allowMergeCache, doc,
             IF useCache /\ Len(bodies) > 0
             THEN Put(G.valueCache, ordered[Len(ordered)].time,
                      [doc |-> doc, count |-> Len(ordered)])
             ELSE G.valueCache)

applyStepwise(G, headTimes, without, allowMergeCache, stepwise) ==
  applyStore(G, headTimes, without, allowMergeCache, stepwise.doc, stepwise.cache)

\* applyAllValue, the replay from startIndex on the seed document doc1.
applyBodies(G, headTimes, without, useCache, allowMergeCache, ordered, bodies, doc1) ==
  applyBatch(G, headTimes, without, useCache, allowMergeCache, ordered, bodies,
             IF Len(bodies) > 0 THEN applyPatchBatch(doc1, bodies) ELSE doc1)

applySeeded(G, headTimes, without, useCache, allowMergeCache, cacheAll, ordered, startIndex, doc1) ==
  IF useCache /\ cacheAll
  THEN applyStepwise(G, headTimes, without, allowMergeCache,
                     applyCaching(G.valueCache, doc1, ordered, startIndex + 1))
  ELSE applyBodies(G, headTimes, without, useCache, allowMergeCache, ordered,
                   bodiesFrom(ordered, startIndex + 1), doc1)

applySeed(G, headTimes, without, useCache, allowMergeCache, cacheAll, ordered, doc0, startIndex) ==
  applySeeded(G, headTimes, without, useCache, allowMergeCache, cacheAll,
              ordered, startIndex,
              IF startIndex > 0 THEN G.valueCache[ordered[startIndex].time].doc
              ELSE doc0)

applyOrdered(G, headTimes, without, useCache, allowMergeCache, cacheAll, ordered, doc0) ==
  applySeed(G, headTimes, without, useCache, allowMergeCache, cacheAll,
            ordered, doc0,
            IF useCache THEN seedIndex(G.valueCache, ordered, Len(ordered)) ELSE 0)

applyFloor(G, headTimes, without, useCache, allowMergeCache, cacheAll, source, snapshot) ==
  applyOrdered(G, headTimes, without, useCache, allowMergeCache, cacheAll,
               replayList(G, replayTimes(source, snapshot)), startingDoc(snapshot))

applyReached(G, headTimes, without, useCache, allowMergeCache, cacheAll, useReach, ordered, reachable) ==
  IF Len(reachable) = 0
  THEN [doc |-> fromString(<<>>), g |-> G]
  ELSE applyFloor(G, headTimes, without, useCache, allowMergeCache, cacheAll,
                  IF useReach THEN ordered ELSE reachable,
                  latestSnapshot(G, reachable))

applyReach(headTimes, without, useCache, allowMergeCache, cacheAll, useReach, r) ==
  applyReached(r.g, headTimes, without, useCache, allowMergeCache, cacheAll,
               useReach, r.ordered,
               SelectSeq(r.reachable, LAMBDA t : t \notin without))

\* applyAllValue: returns the document and the graph with its caches updated.
applyAllValue(G, headTimes, without, useCache, allowMergeCache, cacheAll) ==
  applyReach(headTimes, without, useCache, allowMergeCache, cacheAll,
             useCache /\ Len(headTimes) = 1 /\ Cardinality(without) = 0,
             reachOf(G, headTimes,
                     useCache /\ Len(headTimes) = 1 /\ Cardinality(without) = 0))

valueMerged(r, key) ==
  [doc |-> r.doc, g |-> [r.g EXCEPT !.mergeCache = Put(@, key, r.doc)]]

valueOfCached(G, headTimes, without, cacheAll) ==
  IF Len(headTimes) = 0 THEN [doc |-> fromString(<<>>), g |-> G]
  ELSE IF Len(headTimes) = 1
  THEN applyAllValue(G, headTimes, without, TRUE, FALSE, cacheAll)
  ELSE IF Cardinality(without) = 0
  THEN IF MergeKey(headTimes) \in DOMAIN G.mergeCache
       THEN [doc |-> G.mergeCache[MergeKey(headTimes)], g |-> G]
       ELSE valueMerged(applyAllValue(G, headTimes, without, FALSE, TRUE, TRUE),
                        MergeKey(headTimes))
  ELSE applyAllValue(G, headTimes, without, FALSE, FALSE, TRUE)

valueOf(G, headTimes, without, cacheAll) ==
  IF Len(headTimes) = 0 THEN [doc |-> fromString(<<>>), g |-> G]
  ELSE IF Cardinality(without) = 0 /\ Len(headTimes) = 1
  THEN applyAllValue(G, headTimes, without, TRUE, FALSE, cacheAll)
  ELSE IF Len(headTimes) > 1 /\ Cardinality(without) = 0
  THEN IF MergeKey(headTimes) \in DOMAIN G.mergeCache
       THEN [doc |-> G.mergeCache[MergeKey(headTimes)], g |-> G]
       ELSE valueMerged(applyAllValue(G, headTimes, without, FALSE, TRUE, TRUE),
                        MergeKey(headTimes))
  ELSE applyAllValue(G, headTimes, without, FALSE, FALSE, TRUE)

\* value({time, withoutTimes}); time = 0 stands for "no time given".  The
\* caller guarantees time = 0 or Has(G, time): an unknown time throws.
value(G, time, without) ==
  valueOf(G, IF time # 0 THEN <<time>> ELSE getHeads(G), without, time # 0)

\* ----------------------------------------------------------------- Session
\* rebaseDraft for a document that is not a StringDocument.
rebaseDraftAlways(base, draft, updatedBase) ==
  applyPatch(updatedBase, makePatch(base, draft))

rebaseDraft(base, draft, updatedBase) ==
  IF isEqual(draft, base) THEN updatedBase
  ELSE IF isEqual(draft, updatedBase) THEN updatedBase
  ELSE applyPatch(updatedBase, makePatch(base, draft))

\* A Session after its constructor.  flights lists the fileAdapter.write
\* calls that have not settled, each awaited by one flushFileQueue run:
\* content and base are the arguments, applied tells whether the adapter has
\* put the content into the file, lastOk (history) is the content of the
\* last write that had resolved when the call was made, coalesced (history)
\* tells that the call replaces changes queued one over the other.  loaded and
\* subscribed are the lengths of the store's log when init() loaded the
\* history and when it subscribed.  reads lists the
\* texts of the fileAdapter.read calls handleFileChange is awaiting.
\* lastOk (the content of the last write that resolved), queued (the last
\* content queueFileWrite recorded while a write was unsettled) and overwrote
\* (that content replaced a different one recorded before it) are history
\* fields the code does not have.
NewSession(id, hasFile) ==
  [pc |-> "new", loaded |-> 0, subscribed |-> 0, userId |-> id, fileAdapter |-> hasFile,
   graph |-> EmptyGraph, doc |-> {}, committedDoc |-> {}, lastTime |-> 0,
   localTimes |-> <<>>, undoPtr |-> 0, workingCopy |-> None,
   pendingWrite |-> FALSE, dirtyContent |-> None, persistedContent |-> None,
   suppressFileChanges |-> 0, flights |-> <<>>, reads |-> <<>>,
   lastOk |-> None, queued |-> None, overwrote |-> FALSE]

\* computeLastTime
computeLastTime(G) ==
  IF Len(G.patches) = 0 THEN 0
  ELSE CHOOSE t \in Times(G) : \A u \in Times(G) : u <= t

\* nextTime: the value returned (and stored in lastTime) when clock() = t.
nextTimeAtLeast(S, t) == IF t >= S.lastTime THEN t ELSE S.lastTime + 1
nextTime(S, t) == IF t > S.lastTime THEN t ELSE S.lastTime + 1

\* withoutTimes: the undone local ids.
withoutNothing(S) == {}
withoutTimes(S) ==
  IF S.undoPtr >= Len(S.localTimes) THEN {}
  ELSE {S.localTimes[i] : i \in (S.undoPtr + 1)..Len(S.localTimes)}

\* flushFileQueue, one turn of its loop up to the await: the write call.
flushStart(S) ==
  [S EXCEPT !.dirtyContent = None,
            !.suppressFileChanges = @ + 1,
            !.queued = None,
            !.overwrote = FALSE,
            !.flights = Append(@, [content |-> S.dirtyContent[1],
                                   base |-> S.persistedContent,
                                   applied |-> FALSE,
                                   lastOk |-> S.lastOk,
                                   coalesced |-> S.overwrote])]

\* queueFileWrite line 509: the content recorded as dirty.
dirtyKeepFirst(S, content) ==
  IF S.dirtyContent # None THEN S.dirtyContent ELSE Some(content)
dirtyAfterQueue(S, content) == Some(content)


\* queueFileWrite line 510: a flushFileQueue run is already active.
neverBlocks(S) == FALSE
pendingWriteBlocks(S) == S.pendingWrite

\* History: queueFileWrite records content while a write is unsettled.
queuedInFlight(S, content) ==
  [S EXCEPT !.queued = Some(content),
            !.overwrote = @ \/ (S.queued # None /\ S.queued # Some(content))]

queueFileWrite(S, content) ==
  IF ~S.fileAdapter THEN S
  ELSE IF S.persistedContent = Some(content) /\ ~Truthy(S.dirtyContent) THEN S
  ELSE IF pendingWriteBlocks(S)
  THEN queuedInFlight([S EXCEPT !.dirtyContent = dirtyAfterQueue(S, content)], content)
  ELSE flushStart([S EXCEPT !.dirtyContent = dirtyAfterQueue(S, content),
                            !.pendingWrite = TRUE])

\* syncDoc once graph.value({withoutTimes}) has returned r.
syncLiveCommitted(S, baseDoc, liveDoc) ==
  queueFileWrite([S EXCEPT !.committedDoc = baseDoc, !.doc = baseDoc], toString(baseDoc))

syncLive(S, baseDoc, liveDoc) ==
  queueFileWrite(
    [S EXCEPT !.committedDoc = baseDoc,
              !.doc = liveDoc,
              !.workingCopy = IF @ # None
                              THEN Some([base |-> baseDoc, draft |-> liveDoc])
                              ELSE @],
    toString(liveDoc))

syncValuedStale(S, r) ==
  syncLive([S EXCEPT !.graph = r.g], r.doc, IF S.workingCopy # None THEN S.workingCopy[1].draft ELSE r.doc)

syncValued(S, r) ==
  syncLive([S EXCEPT !.graph = r.g], r.doc,
           IF S.workingCopy # None
           THEN rebaseDraft(S.workingCopy[1].base, S.workingCopy[1].draft, r.doc)
           ELSE r.doc)

syncDoc(S) == syncValued(S, value(S.graph, 0, withoutTimes(S)))

\* The envelope commit and applyExternalDoc build for a new local patch.
envelopeOfLastHead(S, time, body, isFile) ==
  [time |-> time,
   parents |-> IF getHeads(S.graph) = <<>> THEN <<>>
               ELSE <<getHeads(S.graph)[Len(getHeads(S.graph))]>>,
   patch |-> Some(body), isSnapshot |-> FALSE, snapshot |-> None, file |-> isFile,
   userId |-> S.userId, version |-> Len(versions(S.graph).list) + 1, ref |-> time]

envelopeOf(S, time, body, isFile) ==
  [time |-> time, parents |-> getHeads(S.graph), patch |-> Some(body),
   isSnapshot |-> FALSE, snapshot |-> None, file |-> isFile, userId |-> S.userId,
   version |-> Len(versions(S.graph).list) + 1, ref |-> time]

\* Truncate the redo tail of localTimes at undoPtr and push time.
pushLocal(S, time) ==
  [S EXCEPT !.localTimes = Append(SubSeq(@, 1, S.undoPtr), time),
            !.undoPtr = S.undoPtr + 1,
            !.lastTime = time]

\* commit after the envelope is built, up to (not including) patchStore.append.
commitEnvelope(S, nextDoc, env) ==
  syncDoc(pushLocal([S EXCEPT !.graph = add(versions(@).g, <<env>>),
                              !.committedDoc = nextDoc,
                              !.doc = nextDoc,
                              !.workingCopy = None],
                    env.time))

commitBase(S) == IF S.workingCopy # None THEN S.workingCopy[1].base ELSE S.committedDoc

\* commit(nextDoc) when clock() returns t: [s: the session, env: the envelope].
commitWith(S, nextDoc, env) == [s |-> commitEnvelope(S, nextDoc, env), env |-> env]

commit(S, nextDoc, t) ==
  commitWith(S, nextDoc,
             envelopeOf(S, nextTime(S, t), makePatch(commitBase(S), nextDoc), FALSE))

applyRemoteStale(S, env) == syncDoc([S EXCEPT !.graph = add(@, <<env>>)])

applyRemote(S, env) ==
  syncDoc([S EXCEPT !.graph = add(@, <<env>>),
                    !.lastTime = IF env.time > @ THEN env.time ELSE @])

undo(S) == IF S.undoPtr > 0 THEN syncDoc([S EXCEPT !.undoPtr = @ - 1]) ELSE S

redoUnguarded(S) == syncDoc([S EXCEPT !.undoPtr = @ + 1])
redo(S) ==
  IF S.undoPtr < Len(S.localTimes) THEN syncDoc([S EXCEPT !.undoPtr = @ + 1]) ELSE S

setWorkingCopyCommitted(S, draft) ==
  [S EXCEPT !.workingCopy = Some([base |-> S.committedDoc, draft |-> draft]),
            !.doc = draft,
            !.committedDoc = draft]

setWorkingCopy(S, draft) ==
  [S EXCEPT !.workingCopy = Some([base |-> S.committedDoc, draft |-> draft]),
            !.doc = draft]

clearWorkingCopy(S) == [S EXCEPT !.workingCopy = None, !.doc = S.committedDoc]

\* resetUndo once graph.value() has returned full, clock() returning t:
\* [s: the session, env: the envelope committed, or None].
resetCommitted(c) == [s |-> c.s, env |-> Some(c.env)]

resetValued(S, full, t) ==
  IF ~isEqual(S.doc, full.doc)
  THEN resetCommitted(commit([S EXCEPT !.graph = full.g, !.committedDoc = full.doc],
                             S.doc, t))
  ELSE [s |-> syncDoc([S EXCEPT !.graph = full.g, !.undoPtr = Len(S.localTimes)]),
        env |-> None]

resetUndo(S, t) == resetValued(S, value(S.graph, 0, {}), t)

\* applyExternalDoc(newDoc) when clock() returns t.
externalEnvelope(S, newDoc, env) ==
  [s |-> syncDoc(pushLocal([S EXCEPT !.graph = add(versions(@).g, <<env>>),
                                     !.doc = newDoc],
                           env.time)),
   env |-> env]

applyExternalDoc(S, newDoc, t) ==
  externalEnvelope(S, newDoc,
                   envelopeOf(S, nextTime(S, t), makePatch(S.doc, newDoc), FALSE))

\* flushFileQueue from the await of flight i to the next await or the end.
flushLoop(S) ==
  IF S.dirtyContent # None THEN flushStart(S)
  ELSE [S EXCEPT !.pendingWrite = FALSE, !.queued = None, !.overwrote = FALSE]

dropFlightUnclamped(S, i) ==
  [S EXCEPT !.flights = SubSeq(@, 1, i - 1) \o SubSeq(@, i + 1, Len(@)), !.suppressFileChanges = @ - 1]

dropFlight(S, i) ==
  [S EXCEPT !.flights = SubSeq(@, 1, i - 1) \o SubSeq(@, i + 1, Len(@)),
            !.suppressFileChanges = IF @ > 0 THEN @ - 1 ELSE 0]

flushSettleStops(S, i, ok) ==
  IF ok THEN flushLoop(dropFlight([S EXCEPT !.persistedContent = Some(S.flights[i].content), !.lastOk = Some(S.flights[i].content)], i))
  ELSE dropFlight(S, i)

flushSettle(S, i, ok) ==
  flushLoop(dropFlight(IF ok
                       THEN [S EXCEPT !.persistedContent = Some(S.flights[i].content),
                                      !.lastOk = Some(S.flights[i].content)]
                       ELSE S,
                       i))

\* ------------------------------------------------------------------- state
VARIABLES
  pg,          \* a stand-alone PatchGraph instance
  pgValued,    \* history: value() has been computed on pg
  pgLastAdd,   \* history: the last call on pg was an add() that changed it
  sess,        \* the Session objects, by session number
  log,         \* the patch store: the envelopes appended, in order
  cursor,      \* per session: how many envelopes its subscription has passed
  file,        \* the file behind the file adapter of session 1
  call         \* a call of a function that keeps no state: arguments, then result

graphVars == <<pg, pgValued, pgLastAdd, call>>
sessVars == <<sess, log, cursor, file>>
vars == <<pg, pgValued, pgLastAdd, sess, log, cursor, file, call>>

Sessions == 1..NumSessions

\* The file: its content, the change notifications the adapter has not yet
\* passed to its watcher, and two history counters: the modifications made
\* by somebody else, the writes rejected.
NewFile == [content |-> <<>>, notes |-> 0, externals |-> 0, failures |-> 0]

\* Sessions constructed and not yet used, an empty store, an empty file.
SessIdle ==
  /\ sess = [s \in Sessions |-> NewSession(s, FALSE)]
  /\ log = <<>>
  /\ cursor = [s \in Sessions |-> 0]
  /\ file = NewFile

NoGraph ==
  /\ pg = EmptyGraph
  /\ pgValued = FALSE
  /\ pgLastAdd = FALSE

GraphIdle ==
  /\ NoGraph
  /\ call = None

\* ------------------------------------------- patches offered to PatchGraph
ParentLists(t) ==
  {SetToSeq(ps) : ps \in {q \in SUBSET ((t - ParentSpan)..(t - 1)) :
                            Cardinality(q) <= MaxParents /\ \A x \in q : x >= 1}}

\* An ordinary patch: a body, no snapshot data.
NewPatch(t, ps, body, isFile) ==
  [time |-> t, parents |-> ps, patch |-> Some(body), isSnapshot |-> FALSE,
   snapshot |-> None, file |-> isFile, userId |-> 0, version |-> 0,
   ref |-> IF isFile THEN 0 ELSE t]

\* A snapshot record for id t: the serialized document, no body.
SnapshotRecord(t, ps, text) ==
  [time |-> t, parents |-> ps, patch |-> None, isSnapshot |-> TRUE,
   snapshot |-> Some(text), file |-> FALSE, userId |-> 0, version |-> 0,
   ref |-> t]

\* The body offered with id t: insert the last key, insert key 1, delete
\* key 1, replace key 1 by the last key, and so on.
OfferedBody(t) ==
  CASE t % 4 = 1 -> OpsBody({}, {NumKeys})
    [] t % 4 = 2 -> OpsBody({}, {1})
    [] t % 4 = 3 -> OpsBody({1}, {})
    [] OTHER -> OpsBody({1}, {NumKeys})

\* The patches and snapshot records offered with ids 1..maxId.
Offered(maxId) ==
  UNION {
    {NewPatch(t, ps, OfferedBody(t), FALSE) : ps \in ParentLists(t)}
    \cup {SnapshotRecord(t, ps, <<NumKeys>>) : ps \in ParentLists(t)}
    : t \in 1..maxId}

SnapshotCount(G) == Cardinality({i \in DOMAIN G.patches : G.patches[i].isSnapshot})

\* ------------------------------------------------------ PatchGraph actions
GraphInit ==
  /\ GraphIdle
  /\ SessIdle

\* graph.add(input) building a graph: every id is new, in any order.
GraphBuild(input) ==
  /\ \A i \in DOMAIN input : ~Has(pg, input[i].time)
  /\ \A i, j \in DOMAIN input : input[i].time = input[j].time => i = j
  /\ \A i \in DOMAIN input : ~input[i].isSnapshot \/ SnapshotCount(pg) < MaxSnapshots
  /\ Cardinality({i \in DOMAIN input : input[i].isSnapshot}) <= MaxSnapshots
  /\ pg' = add(pg, input)
  /\ pgLastAdd' = TRUE
  /\ UNCHANGED <<pgValued, call, sessVars>>

\* graph.add([p]) as the patch store delivers it: the parents of p are
\* present; p is new, or a redelivery carrying snapshot data for its id.
GraphAdd(p) ==
  /\ \A q \in Range(p.parents) : Has(pg, q)
  /\ \/ ~Has(pg, p.time)
     \/ /\ Has(pg, p.time)
        /\ p.isSnapshot
        /\ p.parents = Get(pg, p.time).parents
  /\ p.isSnapshot => SnapshotCount(pg) < MaxSnapshots
  /\ pg' = add(pg, <<p>>)
  /\ pgLastAdd' = TRUE
  /\ UNCHANGED <<pgValued, call, sessVars>>

\* graph.value({time, withoutTimes}); time = 0: the current heads.
GraphValue(time, without) ==
  /\ time = 0 \/ Has(pg, time)
  /\ without \subseteq Times(pg)
  /\ pg' = value(pg, time, without).g
  /\ pgValued' = (pgValued \/ (time = 0 /\ without = {}))
  /\ pgLastAdd' = FALSE
  /\ UNCHANGED <<call, sessVars>>

\* graph.versions()
GraphVersions ==
  /\ pg' = versions(pg).g
  /\ UNCHANGED <<pgValued, pgLastAdd, call, sessVars>>

BuildNext ==
  \/ \E p \in Offered(MaxId) : GraphBuild(<<p>>)
  \/ \E p, q \in Offered(MaxId) : GraphBuild(<<p, q>>)

GraphNext ==
  \/ \E p \in Offered(GraphMaxId) : GraphAdd(p)
  \/ \E t \in 0..GraphMaxId, w \in {{}} \cup {{x} : x \in 1..GraphMaxId} :
       GraphValue(t, w)
  \/ GraphVersions

\* A PatchGraph that only receives patches, in any order and any split.
SpecBuild == GraphInit /\ [][BuildNext]_vars

\* A PatchGraph receiving patches and answering value()/versions() calls.
SpecGraph == GraphInit /\ [][GraphNext]_vars

\* ------------------------------------------------------- PatchGraph claims
\* The patches of G in ascending id order.
SortedPatches(G) ==
  LET ts == SortAscending([i \in DOMAIN G.patches |-> G.patches[i].time])
  IN [i \in DOMAIN ts |-> Get(G, ts[i])]

\* An independent graph that received the patches of G in one add() call,
\* in ascending id order.
CanonGraph(G) == add(EmptyGraph, SortedPatches(G))

\* A new graph that received the patches G holds; its caches are empty.
FreshGraph(G) == add(EmptyGraph, G.patches)

\* C1: graphs that received the same patches (distinct ids) through add() in
\* different orders and splits return from value(), for the current heads and
\* for every single id, documents with the same toString.
C1_Determinism ==
  \A sel \in {0} \cup Times(pg) :
    toString(value(pg, sel, {}).doc) = toString(value(CanonGraph(pg), sel, {}).doc)

C1_Witness ==
  /\ Len(pg.patches) >= 3
  /\ \E i, j \in DOMAIN pg.patches : i < j /\ pg.patches[i].time > pg.patches[j].time
  /\ Len(getHeads(pg)) >= 2
  /\ pg.patches # CanonGraph(pg).patches
  /\ value(pg, 0, {}).doc # {}

\* C3: after any sequence of add() and value()/version() calls, value({time:
\* id}) of every known id equals what a fresh graph holding the same patches
\* returns: the value cache never changes a result.
C3_CacheTransparent ==
  \A id \in Times(pg) :
    toString(value(pg, id, {}).doc) = toString(value(FreshGraph(pg), id, {}).doc)

\* C4: once value() has been computed, right after an add() the next value()
\* equals what a fresh graph holding all the patches computes, and versions()
\* lists every id added.
C4_NoStaleValue ==
  (pgValued /\ pgLastAdd) =>
    /\ toString(value(pg, 0, {}).doc) = toString(value(FreshGraph(pg), 0, {}).doc)
    /\ Range(versions(pg).list) = Times(pg)

\* --------------------------------------------------------- Session actions
Ready(s) == sess[s].pc = "ready"

\* init() up to the await: patchStore.loadInitial() is called.
SessInitLoad(s) ==
  /\ sess[s].pc = "new"
  /\ sess' = [sess EXCEPT ![s].pc = "loading", ![s].loaded = Len(log)]
  /\ UNCHANGED <<graphVars, log, cursor, file>>

\* init() after the await: the loaded history is ingested, the document is
\* computed, and the session subscribes to the store (and watches the file).
initValued(S, r) ==
  [S EXCEPT !.pc = "ready", !.graph = r.g, !.committedDoc = r.doc, !.doc = r.doc,
            !.lastTime = computeLastTime(r.g),
            !.persistedContent = IF S.fileAdapter THEN Some(toString(r.doc)) ELSE @]

initLoaded(S, G) == initValued(S, value(versions(G).g, 0, {}))

SessInitDone(s) ==
  /\ sess[s].pc = "loading"
  /\ sess' = [sess EXCEPT
       ![s] = initLoaded([@ EXCEPT !.subscribed = Len(log)],
                         add(@.graph, SubSeq(log, 1, @.loaded)))]
  /\ cursor' = [cursor EXCEPT ![s] = Len(log)]
  /\ UNCHANGED <<graphVars, log, file>>

\* commit(nextDoc), the injected clock returning t.
Commit(s, nextDoc, t) ==
  /\ Ready(s)
  /\ nextTime(sess[s], t) <= MaxTime
  /\ Len(log) < MaxLog
  /\ sess' = [sess EXCEPT ![s] = commit(@, nextDoc, t).s]
  /\ log' = Append(log, commit(sess[s], nextDoc, t).env)
  /\ UNCHANGED <<graphVars, cursor, file>>

\* The store passes the next envelope to the subscriber: applyRemote(env).
Deliver(s) ==
  /\ Ready(s)
  /\ cursor[s] < Len(log)
  /\ sess' = [sess EXCEPT ![s] = applyRemote(@, log[cursor[s] + 1])]
  /\ cursor' = [cursor EXCEPT ![s] = @ + 1]
  /\ UNCHANGED <<graphVars, log, file>>

Undo(s) ==
  /\ Ready(s)
  /\ sess[s].undoPtr > 0
  /\ sess' = [sess EXCEPT ![s] = undo(@)]
  /\ UNCHANGED <<graphVars, log, cursor, file>>

Redo(s) ==
  /\ Ready(s)
  /\ sess[s].undoPtr < Len(sess[s].localTimes)
  /\ sess' = [sess EXCEPT ![s] = redo(@)]
  /\ UNCHANGED <<graphVars, log, cursor, file>>

SetWorkingCopy(s, draft) ==
  /\ Ready(s)
  /\ sess' = [sess EXCEPT ![s] = setWorkingCopy(@, draft)]
  /\ UNCHANGED <<graphVars, log, cursor, file>>

ClearWorkingCopy(s) ==
  /\ Ready(s)
  /\ sess[s].workingCopy # None
  /\ sess' = [sess EXCEPT ![s] = clearWorkingCopy(@)]
  /\ UNCHANGED <<graphVars, log, cursor, file>>

\* resetUndo(), the injected clock returning t.
ResetDone(s, r) ==
  /\ r.env # None => r.s.lastTime <= MaxTime /\ Len(log) < MaxLog
  /\ sess' = [sess EXCEPT ![s] = r.s]
  /\ log' = log \o r.env

ResetUndo(s, t) ==
  /\ Ready(s)
  /\ ResetDone(s, resetUndo(sess[s], t))
  /\ UNCHANGED <<graphVars, cursor, file>>

\* ------------------------------------------------- file adapter and mirror
\* A change of the file reaches the watcher as one more pending notification
\* (when a watcher is registered; notifications in excess are coalesced).
noted(F, S) ==
  IF S.pc = "ready" /\ S.fileAdapter /\ F.notes < MaxNotes
  THEN [F EXCEPT !.notes = @ + 1] ELSE F

\* The adapter carries out write call i of session s: the file changes.
FileApply(s, i) ==
  /\ i \in DOMAIN sess[s].flights
  /\ ~sess[s].flights[i].applied
  /\ sess' = [sess EXCEPT ![s].flights[i].applied = TRUE]
  /\ file' = noted([file EXCEPT !.content = sess[s].flights[i].content], sess[s])
  /\ UNCHANGED <<graphVars, log, cursor>>

\* Write call i settles: it resolves once carried out, or rejects having
\* left the file alone; flushFileQueue resumes.
WriteSettle(s, i, ok) ==
  /\ i \in DOMAIN sess[s].flights
  /\ ok = sess[s].flights[i].applied
  /\ ok \/ file.failures < MaxFailures
  /\ sess' = [sess EXCEPT ![s] = flushSettle(@, i, ok)]
  /\ file' = [file EXCEPT !.failures = IF ok THEN @ ELSE @ + 1]
  /\ UNCHANGED <<graphVars, log, cursor>>

\* Somebody else modifies the file.
ExternalEdit(text) ==
  /\ file.externals < MaxExternals
  /\ file' = noted([file EXCEPT !.content = text, !.externals = @ + 1], sess[1])
  /\ UNCHANGED <<graphVars, sess, log, cursor>>

\* The watcher callback: handleFileChange up to its await.
handleFileChangeRead(S, text) ==
  [S EXCEPT !.suppressFileChanges = IF @ > 0 THEN @ - 1 ELSE 0, !.reads = Append(@, text)]

handleFileChange(S, text) ==
  IF S.suppressFileChanges > 0
  THEN [S EXCEPT !.suppressFileChanges = @ - 1]
  ELSE [S EXCEPT !.reads = Append(@, text)]

FileNotify(s) ==
  /\ Ready(s)
  /\ sess[s].fileAdapter
  /\ file.notes > 0
  /\ sess[s].suppressFileChanges > 0 \/ Len(sess[s].reads) < MaxReads
  /\ sess' = [sess EXCEPT ![s] = handleFileChange(@, file.content)]
  /\ file' = [file EXCEPT !.notes = @ - 1]
  /\ UNCHANGED <<graphVars, log, cursor>>

\* handleFileChange after fileAdapter.read() has resolved with text.
fileChanged(S, text, t) ==
  applyExternalDoc([S EXCEPT !.reads = Tail(@), !.persistedContent = Some(text)],
                   fromString(text), t)

FileReadSame(s) ==
  /\ sess[s].reads # <<>>
  /\ isEqual(sess[s].doc, fromString(Head(sess[s].reads)))
  /\ sess' = [sess EXCEPT ![s].reads = Tail(@)]
  /\ UNCHANGED <<graphVars, log, cursor, file>>

FileReadChanged(s, t) ==
  /\ sess[s].reads # <<>>
  /\ ~isEqual(sess[s].doc, fromString(Head(sess[s].reads)))
  /\ nextTime(sess[s], t) <= MaxTime
  /\ Len(log) < MaxLog
  /\ sess' = [sess EXCEPT ![s] = fileChanged(@, Head(@.reads), t).s]
  /\ log' = Append(log, fileChanged(sess[s], Head(sess[s].reads), t).env)
  /\ UNCHANGED <<graphVars, cursor, file>>

\* ---------------------------------------------------------- specifications
\* The injected clock is behind every known time, or ahead by MaxClock.
Clock == {0, MaxClock}

\* The documents a caller moves to from doc: one record of keys inserted or
\* deleted.
Toggles(doc, keys) == {(doc \ {k}) \cup ({k} \ doc) : k \in keys}

Edits(doc) == Toggles(doc, Keys)

SessionStep(s) ==
  \/ SessInitLoad(s)
  \/ SessInitDone(s)
  \/ \E d \in Edits(sess[s].doc), t \in Clock : Commit(s, d, t)
  \/ Deliver(s)
  \/ Undo(s)
  \/ Redo(s)

WorkingCopyStep(s) ==
  \/ \E d \in Edits(sess[s].doc) : SetWorkingCopy(s, d)
  \/ ClearWorkingCopy(s)

\* Another participant: it only appends patches of its own.
RemoteStep(s) == \E d \in Edits(sess[s].doc), t \in Clock : Commit(s, d, t)

\* The file mirror is exercised with the injected clock behind every known
\* time.
FileClock == {0}

\* The calls that append an envelope, the store holding fewer than maxLog.
FileCommit(s, keys, maxLog) ==
  /\ Len(log) < maxLog
  /\ \E d \in Toggles(sess[s].doc, keys), t \in FileClock : Commit(s, d, t)

FileRead(s, maxLog) ==
  /\ Len(log) < maxLog
  /\ \E t \in FileClock : FileReadChanged(s, t)

\* The calls that append nothing.
FileSessionStep(s) ==
  \/ Deliver(s)
  \/ Undo(s)
  \/ Redo(s)

FileStep(s) ==
  \/ \E i \in 1..MaxFlights : FileApply(s, i)
  \/ \E i \in 1..MaxFlights, ok \in BOOLEAN : WriteSettle(s, i, ok)
  \/ FileNotify(s)
  \/ FileReadSame(s)

ExternalStep == \E d \in Toggles(fromString(file.content), {1}) : ExternalEdit(toString(d))

SessInit == GraphIdle /\ SessIdle

SessNext == \E s \in Sessions : SessionStep(s)

\* Sessions without file adapters sharing one patch store.
SpecSess == SessInit /\ [][SessNext]_vars

\* A session whose init() has completed on the empty store.
ReadySession(id, hasFile) == initLoaded(NewSession(id, hasFile), EmptyGraph)

SoloInit ==
  /\ GraphIdle
  /\ sess = [s \in Sessions |-> ReadySession(s, FALSE)]
  /\ log = <<>>
  /\ cursor = [s \in Sessions |-> 0]
  /\ file = NewFile

SoloCommit(s) == \E d \in Edits(sess[s].doc), t \in Clock : Commit(s, d, t)

ResetStep(s) == \E t \in Clock : ResetUndo(s, t)

SoloNext ==
  \/ SoloCommit(1)
  \/ FileSessionStep(1)
  \/ WorkingCopyStep(1)
  \/ ResetStep(1)
  \/ RemoteStep(2)

\* One session with a staged working copy, next to another participant.
SpecSolo == SoloInit /\ [][SoloNext]_vars

FileInit ==
  /\ GraphIdle
  /\ sess = [s \in Sessions |-> ReadySession(s, s = 1)]
  /\ log = <<>>
  /\ cursor = [s \in Sessions |-> 0]
  /\ file = NewFile

FileNext ==
  \/ FileCommit(1, {1}, MaxFileLog)
  \/ FileSessionStep(1)
  \/ FileStep(1)
  \/ FileRead(1, MaxFileLog)
  \/ ExternalStep
  \/ FileCommit(2, {1}, MaxFileLog)

\* One session mirroring its document of one record to a file somebody else
\* modifies too, next to another participant.
SpecFile == FileInit /\ [][FileNext]_vars

MirrorNext ==
  \/ FileCommit(1, {1}, MaxLog)
  \/ FileSessionStep(1)
  \/ FileStep(1)
  \/ FileRead(1, MaxLog)
  \/ FileCommit(2, {1}, MaxLog)

\* The same with nobody else modifying the file, and a longer history.
SpecMirror == FileInit /\ [][MirrorNext]_vars

QueueNext ==
  \/ FileCommit(1, Keys, MaxFileLog)
  \/ FileSessionStep(1)
  \/ FileStep(1)
  \/ FileRead(1, MaxFileLog)
  \/ FileCommit(2, Keys, MaxFileLog)

\* Nobody else modifying the file, documents of up to NumKeys records.
SpecQueue == FileInit /\ [][QueueNext]_vars

\* ---------------------------------------------------------- Session claims
\* Every envelope of the log has reached session s (loaded by init or passed
\* to applyRemote); s has nothing undone and no working copy.
Synced(s) ==
  /\ Ready(s)
  /\ sess[s].subscribed = sess[s].loaded
  /\ cursor[s] = Len(log)
  /\ sess[s].undoPtr = Len(sess[s].localTimes)
  /\ sess[s].workingCopy = None

\* C2: two sessions on one store to which every appended patch has been
\* delivered, with nothing undone and no working copy, have documents with
\* the same toString.
C2_Converged ==
  \A a, b \in Sessions :
    (Synced(a) /\ Synced(b)) => toString(sess[a].doc) = toString(sess[b].doc)

\* C5: when commit(nextDoc) returns, getDocument() equals nextDoc, in every
\* session state (no envelope is delivered during the call).
C5_CommitVisible ==
  [][\A s \in Sessions : \A d \in Docs : \A t \in Clock :
       Commit(s, d, t) => isEqual(sess'[s].doc, d)]_vars

\* C6: the ids of the patches one session emits are strictly increasing,
\* whatever the clock returned.
C6_Increasing ==
  \A i, j \in DOMAIN log :
    (i < j /\ log[i].userId = log[j].userId) => log[i].time < log[j].time

\* A session committed, received a later patch of the other session, and
\* committed again with its clock behind.
C6_Witness ==
  \E i, k, j \in DOMAIN log :
    /\ i < k /\ k < j
    /\ log[i].userId = log[j].userId
    /\ log[k].userId # log[i].userId
    /\ log[k].time \in Range(log[j].parents)
    /\ log[j].time > MaxClock

\* ------------------------------------------------------ file mirror claims
\* C7: at every moment at most one fileAdapter.write call issued by a session
\* is unsettled, whatever the interleaving of commits, remote patches, undo,
\* redo, file-change notifications and write completions.
C7_OneWriteInFlight == \A s \in Sessions : Len(sess[s].flights) <= 1

\* A write is unsettled after an earlier one has resolved, another change is
\* waiting in dirtyContent and a notification is pending at the watcher.
C7_Witness ==
  \E s \in Sessions :
    /\ Len(sess[s].flights) = 1
    /\ sess[s].lastOk # None
    /\ sess[s].dirtyContent # None
    /\ file.notes > 0

InitText == toString(ReadySession(1, TRUE).doc)

\* C9: with nobody else modifying the file, every write call passes as base
\* the content of the most recent write that resolved, or the text recorded
\* at init when none has.
C9_WriteBase ==
  file.externals = 0 =>
    \A i \in DOMAIN sess[1].flights :
      sess[1].flights[i].base = IF sess[1].flights[i].lastOk # None
                                THEN sess[1].flights[i].lastOk
                                ELSE Some(InitText)

\* No write in flight and no dirty content.
Drained(s) ==
  /\ sess[s].flights = <<>>
  /\ sess[s].dirtyContent = None
  /\ ~sess[s].pendingWrite

\* C10: when every write has succeeded and nobody else has modified the file,
\* a drained write queue means the content last written is the text of the
\* current document.
C10_MirrorCurrent ==
  (file.externals = 0 /\ file.failures = 0 /\ Drained(1) /\ sess[1].lastOk # None)
    => sess[1].lastOk[1] = toString(sess[1].doc)

\* ------------------------------------------------------- undo / redo claims
\* The ids of the undo region of S: localTimes[undoPtr..].
UndoRegion(S) == {S.localTimes[i] : i \in (S.undoPtr + 1)..Len(S.localTimes)}

\* The document of S is graph.value with exactly its undo region excluded.
ShowsValue(S) == isEqual(S.doc, value(S.graph, 0, UndoRegion(S)).doc)

\* C11: with no working copy staged, after every undo, redo, commit or
\* applyRemote the document is graph.value with exactly localTimes[undoPtr..]
\* excluded, and a redo() right after an undo() shows the document that was
\* shown before the undo.
C11_UndoRegionHidden ==
  [][\A s \in Sessions :
       /\ (sess'[s] # sess[s] /\ sess'[s].pc = "ready" /\ sess'[s].workingCopy = None)
            => ShowsValue(sess'[s])
       /\ (sess'[s].undoPtr < sess[s].undoPtr /\ Undo(s) /\ sess[s].workingCopy = None)
            => isEqual(redo(sess'[s]).doc, sess[s].doc)]_vars

\* A session with a patch of the other session in its graph has undone a
\* patch of its own, and its document differs from the one with nothing
\* excluded.
C11_Witness ==
  \E s \in Sessions :
    /\ Ready(s)
    /\ sess[s].undoPtr < Len(sess[s].localTimes)
    /\ \E i \in DOMAIN log : log[i].userId # s /\ Has(sess[s].graph, log[i].time)
    /\ ~isEqual(sess[s].doc, value(sess[s].graph, 0, {}).doc)

C13_ResetKeepsView ==
  [][\A s \in Sessions : \A t \in Clock :
       ResetUndo(s, t) =>
         IF sess[s].undoPtr < Len(sess[s].localTimes)
         THEN /\ isEqual(sess'[s].doc, sess[s].doc)
              /\ sess'[s].undoPtr = Len(sess'[s].localTimes)
              /\ isEqual(redo(sess'[s]).doc, sess'[s].doc)
         ELSE Times(sess'[s].graph) = Times(sess[s].graph)]_vars


\* ---------------------------------------------------- replay, by definition
\* The ids requested: the one id given, or every id that is no parent.
Requested(G, sel) == IF sel # 0 THEN {sel} ELSE Times(G) \ AllParents(G)

\* The ids reached from seen through parents; a snapshot node ends the walk.
RECURSIVE ReachedFrom(_, _)
ReachedFrom(G, seen) ==
  LET open == {t \in seen : ~Get(G, t).isSnapshot}
      more == (UNION {Range(Get(G, t).parents) : t \in open}) \cap Times(G)
  IN IF more \subseteq seen THEN seen ELSE ReachedFrom(G, seen \cup more)

\* The snapshot nodes among ids.
SnapshotsIn(G, ids) == {t \in ids : Get(G, t).isSnapshot /\ Get(G, t).snapshot # None}

\* The bodies of ids in ascending id order applied to start.
ReplayOn(G, start, ids) ==
  LET sorted == SortAscending(SetToSeq(ids))
  IN applyPatchBatch(start, bodiesFrom([i \in DOMAIN sorted |-> Get(G, sorted[i])], 1))

\* The replay above floor, the greatest snapshot id among ids (0: none).
ReplayAbove(G, ids, floor) ==
  ReplayOn(G, IF floor = 0 THEN fromString(<<>>) ELSE fromString(Get(G, floor).snapshot[1]),
           {t \in ids : t > floor})

GreatestOf(ids) == IF ids = {} THEN 0 ELSE CHOOSE t \in ids : \A u \in ids : u <= t

FloorReplay(G, ids) == ReplayAbove(G, ids, GreatestOf(SnapshotsIn(G, ids)))

Exclusions(G) == {{}} \cup {{x} : x \in Times(G)}

\* C14: value() starts from the text of the snapshot node with the greatest
\* id among the nodes reachable from the requested heads and not excluded and
\* applies the reachable, non-excluded patches with a greater id, and only
\* those; with no such snapshot it starts from the empty document.
C14_SnapshotFloor ==
  \A sel \in {0} \cup Times(pg) : \A w \in Exclusions(pg) :
    isEqual(value(pg, sel, w).doc,
            FloorReplay(pg, ReachedFrom(pg, Requested(pg, sel)) \ w))


\* The graph holding the patches of G with node S an ordinary patch: its
\* snapshot data removed, its parents and body kept.
AsPatch(G, S) ==
  add(EmptyGraph, [i \in DOMAIN G.patches |->
                     IF G.patches[i].time = S
                     THEN [G.patches[i] EXCEPT !.isSnapshot = FALSE, !.snapshot = None]
                     ELSE G.patches[i]])

\* The text of snapshot node S is the serialized value replayed at S.
Faithful(G, S) == Get(G, S).snapshot[1] = toString(value(AsPatch(G, S), S, {}).doc)

\* S is the snapshot value() takes as the floor for the selection sel.
ActsAsFloor(G, sel, S) == S = GreatestOf(SnapshotsIn(G, ReachedFrom(G, Requested(G, sel))))

\* C15: when the text of a snapshot node S equals the serialized value
\* replayed at S from its ancestors, value() for any heads that have S as the
\* floor (one id or all heads, branches concurrent with S included) equals
\* value() on the graph where S is an ordinary patch and its ancestors are
\* replayed.
C15_SnapshotEquivalent ==
  \A S \in SnapshotsIn(pg, Times(pg)) :
    Faithful(pg, S) =>
      \A sel \in {0} \cup Times(pg) :
        ActsAsFloor(pg, sel, S) =>
          isEqual(value(pg, sel, {}).doc, value(AsPatch(pg, S), sel, {}).doc)


\* ------------------------------------------------- PatchGraph, file loads
\* A file:true patch whose body takes the empty document to the file's
\* records.  shared: the body is the payload object another file patch
\* carries too; otherwise it is an object of its own, as after a makePatch
\* call of its own or a delivery by the patch store.
LoadedPatch(t, ps, shared) ==
  [NewPatch(t, ps, makePatch({}, {1}), TRUE) EXCEPT !.ref = IF shared THEN 0 ELSE t]

DedupParents(t) == {<<>>} \cup {<<t - 1>> : x \in {t} \ {1}}

DedupOffered ==
  UNION {
    {LoadedPatch(t, ps, shared) : ps \in DedupParents(t), shared \in BOOLEAN}
    \cup {NewPatch(t, ps, OfferedBody(t), FALSE) : ps \in DedupParents(t)}
    : t \in 1..DedupMaxId}

DedupNext ==
  \/ \E p \in DedupOffered : GraphAdd(p)
  \/ GraphValue(0, {})

\* A PatchGraph receiving file loads and edits and answering value() calls.
SpecDedup == GraphInit /\ [][DedupNext]_vars

\* The ids of the patches value() replays for the selection sel, in order.
Replayed(G, sel) ==
  LET reachable == knownTimes(G, IF sel # 0 THEN <<sel>> ELSE getHeads(G))
      ordered == replayList(G, replayTimes(reachable, latestSnapshot(G, reachable)))
  IN [i \in DOMAIN ordered |-> ordered[i].time]

\* File patches p before q with equal bodies.
FilePairs(G) ==
  {pq \in Times(G) \X Times(G) :
     /\ pq[1] < pq[2]
     /\ Get(G, pq[1]).file /\ Get(G, pq[2]).file
     /\ Get(G, pq[1]).patch # None
     /\ Get(G, pq[1]).patch = Get(G, pq[2]).patch}

Within(p, q) == decodeTimeMs(q) - decodeTimeMs(p) <= DEFAULT_DEDUP_TOLERANCE

\* The ids of ids strictly between p and q.
Between(ids, p, q) == {t \in ids : p < t /\ t < q}

\* The graph holding the patches of G except q.
Without(G, q) == add(EmptyGraph, SelectSeq(G.patches, LAMBDA x : x.time # q))

\* C16: of two file:true patches with equal bodies, the earlier one applied:
\* when the later one is next in replay order and at most FILE_DEDUP_MS after
\* it, the later one is not applied, and value() equals value() of the graph
\* that holds only the earlier one; when they are further apart, or a
\* non-file patch lies between them in replay order, both are applied.
C16_FileDedup ==
  \A sel \in {0} \cup Times(pg) : \A pq \in FilePairs(pg) :
    LET ids == ReachedFrom(pg, Requested(pg, sel))
        applied == Range(Replayed(pg, sel))
        mid == Between(ids, pq[1], pq[2])
    IN (pq[1] \in ids /\ pq[2] \in ids /\ pq[1] \in applied) =>
         /\ (Within(pq[1], pq[2]) /\ mid = {}) =>
              /\ pq[2] \notin applied
              /\ (sel = 0 /\ pq[2] \notin AllParents(pg)) =>
                   isEqual(value(pg, 0, {}).doc, value(Without(pg, pq[2]), 0, {}).doc)
         /\ (mid # {} /\ \A t \in mid : ~Get(pg, t).file) => pq[2] \in applied
         /\ (~Within(pq[1], pq[2]) /\ \A t \in mid : ~Get(pg, t).file) => pq[2] \in applied


\* ---------------------------------------------- PatchGraph, no snapshots
\* The body offered with id t: insert the last key, insert key 1, delete
\* key 1, and so on.
ReplayBody(t) ==
  CASE t % 3 = 1 -> OpsBody({}, {NumKeys})
    [] t % 3 = 2 -> OpsBody({}, {1})
    [] OTHER -> OpsBody({1}, {})

\* The parents of the patch offered with id t: at most MaxParents earlier ids.
ReplayParents(t) ==
  {SetToSeq(ps) : ps \in {q \in SUBSET (1..(t - 1)) : Cardinality(q) <= MaxParents}}

\* graph.add([p]), the patches arriving in id order.
ReplayAdd(p) ==
  /\ p.time = Len(pg.patches) + 1
  /\ GraphAdd(p)

ReplayNext ==
  \/ \E t \in 1..ReplayMaxId : \E ps \in ReplayParents(t) :
       ReplayAdd(NewPatch(t, ps, ReplayBody(t), FALSE))
  \/ \E t \in 0..ReplayMaxId : GraphValue(t, {})

\* A PatchGraph of ordinary patches answering value() calls.
SpecReplay == GraphInit /\ [][ReplayNext]_vars

\* C17: in a graph without snapshots and without file loads, value() for one
\* id or for the current heads, with or without an excluded id, is the empty
\* document with the bodies of exactly the patches reachable through parents
\* from the requested heads and not excluded applied once each in ascending
\* id order.
C17_ReplayOrder ==
  (SnapshotsIn(pg, Times(pg)) = {} /\ \A t \in Times(pg) : ~Get(pg, t).file) =>
    \A sel \in {0} \cup Times(pg) : \A w \in Exclusions(pg) :
      isEqual(value(pg, sel, w).doc,
              ReplayOn(pg, fromString(<<>>), ReachedFrom(pg, Requested(pg, sel)) \ w))


\* ------------------------------------------- a session's graph over time
\* close(): the subscriptions end; the graph is not touched.
close(S) == [S EXCEPT !.pc = "closed"]

Close(s) ==
  /\ Ready(s)
  /\ sess' = [sess EXCEPT ![s] = close(@)]
  /\ UNCHANGED <<graphVars, log, cursor, file>>

\* The record the store passes when it delivers env once more: env itself,
\* or env carrying snapshot data for its id.
Redelivered(env, text) ==
  IF text = None THEN env ELSE [env EXCEPT !.isSnapshot = TRUE, !.snapshot = text]

\* The store delivers a record a second time: applyRemote(record).
Redeliver(s, i, text) ==
  /\ Ready(s)
  /\ (i <= cursor[s] \/ log[i].userId = sess[s].userId)
  /\ sess' = [sess EXCEPT ![s] = applyRemote(@, Redelivered(log[i], text))]
  /\ UNCHANGED <<graphVars, log, cursor, file>>

RedeliverStep(s) ==
  \E i \in DOMAIN log : \E text \in {None, Some(<<>>), Some(<<NumKeys>>)} : Redeliver(s, i, text)

KeepReset(s) ==
  /\ Len(log) < MaxFileLog
  /\ \E t \in FileClock : ResetUndo(s, t)

KeepNext ==
  \/ FileCommit(1, Keys, MaxFileLog)
  \/ FileSessionStep(1)
  \/ WorkingCopyStep(1)
  \/ KeepReset(1)
  \/ RedeliverStep(1)
  \/ Close(1)
  \/ FileCommit(2, Keys, MaxFileLog)

\* A session using every operation while the store delivers, and redelivers,
\* its own patches and those of another participant.
SpecKeep == SoloInit /\ [][KeepNext]_vars

\* Node new is node old, or node old with snapshot data attached where it
\* had none.
SameOrAttached(old, new) ==
  \/ new = old
  \/ /\ old.snapshot = None
     /\ new.snapshot # None
     /\ new = [old EXCEPT !.isSnapshot = TRUE, !.snapshot = new.snapshot]

\* Every node of G is a node of H with the same body and parents.
Kept(G, H) ==
  \A t \in Times(G) :
    /\ Has(H, t)
    /\ Get(H, t).patch = Get(G, t).patch
    /\ Get(H, t).parents = Get(G, t).parents
    /\ SameOrAttached(Get(G, t), Get(H, t))

\* C18: an id in the graph stays there with its body and parents under every
\* operation (add, value, undo, redo, resetUndo, working copy, close), and
\* add() of an id already present changes the stored node only by attaching
\* snapshot data where it had none.
C18_PatchesKept ==
  [][\A s \in Sessions : sess'[s] # sess[s] => Kept(sess[s].graph, sess'[s].graph)]_vars


\* The ids of G that no patch of G lists as a parent.
Childless(G) ==
  {t \in Times(G) : \A i \in DOMAIN G.patches : t \notin Range(G.patches[i].parents)}

Ascending(s) == \A i, j \in DOMAIN s : i < j => s[i] < s[j]

\* C19: after add() calls in any order getHeads() lists exactly the ids that
\* no patch in the graph names as a parent, in ascending order.
C19_Heads ==
  /\ Range(getHeads(pg)) = Childless(pg)
  /\ Ascending(getHeads(pg))

C19_Witness ==
  /\ Len(getHeads(pg)) >= 2
  /\ Childless(pg) # Times(pg)
  /\ ~Ascending(SelectSeq([i \in DOMAIN pg.patches |-> pg.patches[i].time],
                          LAMBDA t : t \in Childless(pg)))
  /\ \E t \in Times(pg) : \E q \in Range(Get(pg, t).parents) : ~Has(pg, q)


\* The envelope session s appended to the store in this step, if any.
Appended(s) ==
  IF Len(log') = Len(log) + 1 /\ log'[Len(log')].userId = sess[s].userId
  THEN Some(log'[Len(log')]) ELSE None

\* C20: a patch created by commit lists as parents exactly the heads of the
\* session's graph right before the commit, and right after the commit the
\* new patch is the only head of that graph, however many heads it had.
C20_CommitParents ==
  [][\A s \in Sessions :
       (log' # log /\ Appended(s) # None) =>
         /\ Appended(s)[1].parents = getHeads(sess[s].graph)
         /\ Range(Appended(s)[1].parents) = Childless(sess[s].graph)
         /\ getHeads(sess'[s].graph) = <<Appended(s)[1].time>>]_vars

C20_Witness ==
  \E s \in Sessions : \E t \in Times(sess[s].graph) :
    /\ Get(sess[s].graph, t).userId = s
    /\ Len(Get(sess[s].graph, t).parents) >= 2
    /\ getHeads(sess[s].graph) = <<t>>
    /\ sess[s].localTimes # <<>>
    /\ sess[s].localTimes[Len(sess[s].localTimes)] = t


\* --------------------------------------------- functions that keep no state
\* No graph of its own, no session in use: only the call is examined.
NoObjects == NoGraph /\ SessIdle

Returned == call.out # None

\* The call returns.
Return(result) ==
  /\ ~Returned
  /\ call' = [call EXCEPT !.out = Some(result)]
  /\ UNCHANGED <<pg, pgValued, pgLastAdd, sessVars>>

\* rebaseDraft({base, draft, updatedBase}) for table documents.
RebaseInit ==
  /\ NoObjects
  /\ call \in [base : Docs, draft : Docs, updatedBase : Docs, out : {None}]

RebaseNext == Return(rebaseDraft(call.base, call.draft, call.updatedBase))

SpecRebase == RebaseInit /\ [][RebaseNext]_vars

\* C21: rebaseDraft returns a document equal to updatedBase when the draft
\* equals the base, and when the draft equals updatedBase.
C21_RebaseFixed ==
  (Returned /\ (isEqual(call.draft, call.base) \/ isEqual(call.draft, call.updatedBase)))
    => isEqual(call.out[1], call.updatedBase)

C21_Witness ==
  /\ Returned
  /\ isEqual(call.draft, call.base)
  /\ ~isEqual(call.draft, call.updatedBase)
  /\ ~isEqual(applyPatch(call.updatedBase, makePatch(call.base, call.draft)), call.updatedBase)


\* ------------------------------------------ working copy beside the mirror
DraftNext ==
  \/ FileCommit(1, {1}, MaxFileLog)
  \/ FileStep(1)
  \/ WorkingCopyStep(1)
  \/ Undo(1)

\* A session with a file adapter staging and dropping working copies while
\* its commits are written to the file.
SpecDraft == FileInit /\ [][DraftNext]_vars

\* T is S except for the staged working copy and the visible document.
OnlyDraftChanged(S, T) == [T EXCEPT !.workingCopy = S.workingCopy, !.doc = S.doc] = S

\* C22: setWorkingCopy(draft) changes only the staged working copy and the
\* visible document; the graph, localTimes, undoPtr, the committed document,
\* the patch store and the file-write queue stay as they are.
C22_DraftFrame ==
  [][\A s \in Sessions :
       (sess'[s] # sess[s] /\ \E d \in Docs : SetWorkingCopy(s, d)) =>
         /\ OnlyDraftChanged(sess[s], sess'[s])
         /\ log' = log
         /\ file' = file]_vars

C22_Witness ==
  /\ sess[1].workingCopy # None
  /\ sess[1].doc = sess[1].workingCopy[1].draft
  /\ ~isEqual(sess[1].doc, sess[1].committedDoc)
  /\ sess[1].pendingWrite
  /\ sess[1].dirtyContent # None
  /\ sess[1].localTimes # <<>>


\* ------------------------------------------------- closing beside the mirror
CloseNext ==
  \/ FileNext
  \/ Close(1)

\* The file mirror of SpecFile with a session that may be closed at any
\* moment, also between a file notification and the read it awaits.
SpecClose == FileInit /\ [][CloseNext]_vars

\* C23: after close() has returned, no notification from the patch store or
\* the file adapter, a file-change handler already running included, changes
\* the session's graph or document, and the session appends no further patch.
C23_ClosedQuiet ==
  [][\A s \in Sessions :
       sess[s].pc = "closed" =>
         /\ sess'[s].graph = sess[s].graph
         /\ sess'[s].doc = sess[s].doc
         /\ (log' # log => log'[Len(log')].userId # sess[s].userId)]_vars


\* --------------------------------------------- sessions on truncated history
\* The only patch a store with truncated history still holds: written by a
\* client that is gone, numbered version by that client.
SeedPatch(version) == [NewPatch(1, <<>>, makePatch({}, {1}), FALSE) EXCEPT !.version = version]

TruncInit ==
  /\ GraphIdle
  /\ sess = [s \in Sessions |-> NewSession(s, FALSE)]
  /\ log \in {<<SeedPatch(v)>> : v \in 1..MaxVersion}
  /\ cursor = [s \in Sessions |-> 0]
  /\ file = NewFile

\* Sessions initialised from a store whose history was truncated.
SpecTrunc == TruncInit /\ [][SessNext]_vars

\* C24: the version number commit assigns is strictly greater than the
\* version of every patch already in the session's graph, also when the
\* session was initialised from truncated history whose versions do not
\* start at 1.
C24_VersionGrows ==
  [][\A s \in Sessions :
       (Ready(s) /\ log' # log /\ log'[Len(log')].userId = sess[s].userId) =>
         \A i \in DOMAIN sess[s].graph.patches :
           log'[Len(log')].version > sess[s].graph.patches[i].version]_vars


\* ------------------------------------------------------------- getAncestors
\* One turn of the while loop of getAncestors, or its return when the stack
\* is empty. C holds the graph, the arguments and the locals stack, visited.
getAncestorsTurn(C, t, rest) ==
  IF t \in Range(C.visited) THEN [C EXCEPT !.stack = rest]
  ELSE IF ~Has(C.g, t) THEN [C EXCEPT !.out = Some([throws |-> TRUE, list |-> <<>>])]
  ELSE [C EXCEPT
         !.visited = IF C.includeSelf \/ t \notin Range(C.times) THEN Append(@, t) ELSE @,
         !.stack = IF C.stopAtSnapshots /\ Get(C.g, t).isSnapshot THEN rest
                   ELSE rest \o Get(C.g, t).parents]

getAncestors(C) ==
  IF C.stack = <<>>
  THEN [C EXCEPT !.out = Some([throws |-> FALSE, list |-> SortTimes(C.visited)])]
  ELSE getAncestorsTurn(C, C.stack[Len(C.stack)], SubSeq(C.stack, 1, Len(C.stack) - 1))

\* The parents a stored patch may name: any ids, its own and later ones
\* included (add() stores what it is given).
AncestorsParents == {SetToSeq(q) : q \in {q \in SUBSET (1..AncestorsMaxId) : Cardinality(q) <= MaxParents}}

AncestorsRecords(t) ==
  {NewPatch(t, ps, ClearBody, FALSE) : ps \in AncestorsParents}
  \cup {SnapshotRecord(t, ps, <<>>) : ps \in {q \in AncestorsParents : t = 2}}

AncestorsGraphs ==
  {add(EmptyGraph, SelectSeq(<<r1, r2, r3>>, LAMBDA r : r.time \in present)) :
     r1 \in AncestorsRecords(1), r2 \in AncestorsRecords(2), r3 \in AncestorsRecords(3),
     present \in SUBSET (1..AncestorsMaxId)}

AncestorsTimes ==
  {<<a>> : a \in 1..AncestorsMaxId}
  \cup {<<a, b>> : a \in 1..AncestorsMaxId, b \in 1..AncestorsMaxId}

AncestorsInit ==
  /\ NoObjects
  /\ \E g \in AncestorsGraphs, times \in AncestorsTimes, self \in BOOLEAN, stop \in BOOLEAN :
       call = [g |-> g, times |-> times, includeSelf |-> self, stopAtSnapshots |-> stop,
               stack |-> times, visited |-> <<>>, out |-> None]

GetAncestors ==
  /\ ~Returned
  /\ Len(call.stack) <= MaxStack
  /\ call' = getAncestors(call)
  /\ UNCHANGED <<pg, pgValued, pgLastAdd, sessVars>>

\* getAncestors called on a graph built by add(); the loop runs to its end
\* without waiting for anything.
SpecAncestors == AncestorsInit /\ [][GetAncestors]_vars /\ WF_vars(GetAncestors)

\* The ids reached from seen through parents, missing ones included; the
\* parents of a snapshot node are left out when stop is set.
RECURSIVE AncestorsReach(_, _, _)
AncestorsReach(G, seen, stop) ==
  LET open == {t \in seen \cap Times(G) : ~(stop /\ Get(G, t).isSnapshot)}
      more == UNION {Range(Get(G, t).parents) : t \in open}
  IN IF more \subseteq seen THEN seen ELSE AncestorsReach(G, seen \cup more, stop)

AncestorsExpected(C, reach) ==
  IF ~(reach \subseteq Times(C.g)) THEN [throws |-> TRUE, list |-> <<>>]
  ELSE [throws |-> FALSE,
        list |-> SetToSeq(IF C.includeSelf THEN reach ELSE reach \ Range(C.times))]

AncestorsAnswer ==
  Returned => call.out[1] = AncestorsExpected(call, AncestorsReach(call.g, Range(call.times), call.stopAtSnapshots))

\* C26: getAncestors(ids, {includeSelf, stopAtSnapshots}) returns, sorted
\* ascending, exactly the ids reachable from the given ids through parents,
\* the parents of a snapshot node not expanded when stopAtSnapshots is set and
\* the given ids included iff includeSelf; it throws if a visited id is
\* missing from the graph, and it terminates on every graph.
C26_Ancestors == []AncestorsAnswer /\ <>Returned


\* ------------------------------------------------- lookups of an unknown id
\* getPatch(time): throws for an id the graph does not hold.
getPatch(G, time) ==
  IF ~Has(G, time) THEN [throws |-> TRUE, g |-> G, patch |-> None]
  ELSE [throws |-> FALSE, g |-> G, patch |-> Some(Get(G, time))]

versionListed(G, time) ==
  IF ~Has(versions(G).g, time) THEN [throws |-> TRUE, g |-> versions(G).g]
  ELSE [throws |-> FALSE, g |-> value(G, time, {}).g]

\* version(time): the test of the id, then value({time}).
version(G, time) ==
  IF ~Has(G, time) THEN [throws |-> TRUE, g |-> G]
  ELSE [throws |-> FALSE, g |-> value(G, time, {}).g]

\* value({time}) with the test of the id it starts with.
valueAt(G, time) ==
  IF time # 0 /\ ~Has(G, time) THEN [throws |-> TRUE, g |-> G]
  ELSE [throws |-> FALSE, g |-> value(G, time, {}).g]

Lookups == {"getPatch", "version", "value"}

lookup(G, op, time) ==
  IF op = "getPatch" THEN getPatch(G, time)
  ELSE IF op = "version" THEN version(G, time)
  ELSE valueAt(G, time)

\* One of the three calls with an id; call records which call it was and
\* whether it threw.
GraphLookup(op, time) ==
  /\ pg' = lookup(pg, op, time).g
  /\ call' = [op |-> op, time |-> time, throws |-> lookup(pg, op, time).throws]
  /\ pgLastAdd' = (pgLastAdd /\ (op = "getPatch" \/ lookup(pg, op, time).throws))
  /\ UNCHANGED <<pgValued, sessVars>>

LookupNext ==
  \/ \E p \in Offered(LookupMaxId) : GraphAdd(p)
  \/ GraphValue(0, {})
  \/ GraphVersions
  \/ \E op \in Lookups, t \in 1..GraphMaxId : GraphLookup(op, t)

\* A PatchGraph receiving patches and answering calls, calls with ids it
\* does not hold among them.
SpecLookup == GraphInit /\ [][LookupNext]_vars

\* C25: getPatch(id), version(id) and value({time: id}) throw for an id that
\* is not in the graph, and the failed call leaves the stored patches and
\* all caches exactly as they were.
C25_UnknownThrows ==
  [][\A op \in Lookups, t \in 1..GraphMaxId :
       (~Has(pg, t) /\ GraphLookup(op, t)) => (call'.throws /\ pg' = pg)]_vars

C25_Witness ==
  /\ call # None
  /\ call.throws
  /\ call.op = "version"
  /\ pg.versionsCache = None
  /\ DOMAIN pg.valueCache # {}
  /\ pg.patches # <<>>


\* ------------------------------------------- table codec with whole records
\* A record of the table: the primary key id, a plain column x, a string
\* column s and a map-valued column m; a field is None when the record does
\* not carry it.  Strings are sequences of characters 1..2, maps go from keys
\* 1..2 to values 1..2, and 0 inside a map stands for JSON null.
DbRecord(id, x, s, m) == [id |-> id, x |-> x, s |-> s, m |-> m]

\* What a set object says about one column: nothing, null, a value, or (string
\* column) a compressed string patch.
Keep == [op |-> "keep", v |-> <<>>]
Null == [op |-> "null", v |-> <<>>]
Set(v) == [op |-> "set", v |-> <<v>>]
StringPatch(from, to) == [op |-> "dmp", v |-> <<from, to>>]

DbSlots(records) == {i \in DOMAIN records : records[i] # None}

\* rebuildIndexes: for the primary key, key value -> slots holding it.
rebuildIndexes(records) ==
  [k \in {records[i][1].id[1] : i \in {j \in DbSlots(records) : records[j][1].id # None}} |->
     {i \in DbSlots(records) : records[i][1].id = Some(k)}]

\* new DbDocumentImmer(primaryKeys, stringCols, records)
DbDocument(records) ==
  [records |-> records, indexes |-> rebuildIndexes(records),
   recordCount |-> Cardinality(DbSlots(records))]

\* primaryKeyMap: toKey(primaryKeyPart(rec)) -> rec, a later slot replacing an
\* earlier one with the same key.
primaryKeyMap(D) ==
  [k \in {D.records[i][1].id : i \in DbSlots(D.records)} |->
     LET last == CHOOSE i \in DbSlots(D.records) :
                   /\ D.records[i][1].id = k
                   /\ \A j \in DbSlots(D.records) : D.records[j][1].id = k => j <= i
     IN D.records[last][1]]

\* The keys of primaryKeyMap in the order the Map iterates them.
primaryKeyOrder(D) ==
  LET slots == SelectSeq([i \in DOMAIN D.records |-> i],
                         LAMBDA i : /\ D.records[i] # None
                                    /\ \A j \in 1..(i - 1) :
                                         D.records[j] = None \/ D.records[j][1].id # D.records[i][1].id)
  IN [n \in DOMAIN slots |-> D.records[slots[n]][1].id]

DbIsEqual(A, B) ==
  /\ A.recordCount = B.recordCount
  /\ Cardinality(DOMAIN primaryKeyMap(A)) = Cardinality(DOMAIN primaryKeyMap(B))
  /\ \A k \in DOMAIN primaryKeyMap(A) :
       /\ k \in DOMAIN primaryKeyMap(B)
       /\ primaryKeyMap(A)[k] = primaryKeyMap(B)[k]

\* toStr(get({})): the defined records, one line each, sorted.
DbToString(D) == {D.records[i][1] : i \in DbSlots(D.records)}

mapMergePatch(obj1, obj2) ==
  [k \in {k \in DOMAIN obj1 : k \notin DOMAIN obj2 \/ obj1[k] # obj2[k]}
         \cup {k \in DOMAIN obj2 : k \notin DOMAIN obj1 \/ obj1[k] = 0} |->
     IF k \in DOMAIN obj2 THEN obj2[k] ELSE 0]

\* One column of diffRecord(from, to); kind is "plain", "string" or "map".
diffField(prev, v, kind) ==
  IF v = None THEN (IF prev # None THEN Null ELSE Keep)
  ELSE IF prev = v THEN Keep
  ELSE IF kind = "string" /\ prev # None THEN StringPatch(prev[1], v[1])
  ELSE IF kind = "map" /\ prev # None THEN Set(mapMergePatch(prev[1], v[1]))
  ELSE Set(v[1])

diffRecord(from, to) ==
  LET obj == [frozen |-> FALSE, id |-> to.id, x |-> diffField(from.x, to.x, "plain"),
              s |-> diffField(from.s, to.s, "string"), m |-> diffField(from.m, to.m, "map")]
  IN IF obj.x.op = "keep" /\ obj.s.op = "keep" /\ obj.m.op = "keep" THEN None ELSE Some(obj)

\* A record pushed on adds as it is.  frozen tells whether the object, with
\* the values it holds, was frozen by immer: it is once a produce has returned
\* a document that holds it.
AsSetObject(rec) ==
  [frozen |-> FALSE, id |-> rec.id,
   x |-> IF rec.x = None THEN Keep ELSE Set(rec.x[1]),
   s |-> IF rec.s = None THEN Keep ELSE Set(rec.s[1]),
   m |-> IF rec.m = None THEN Keep ELSE Set(rec.m[1])]

\* A patch [-1, deletes, 1, sets]: where conditions (None is {}), then set
\* objects.
DbMakePatch(A, B) ==
  IF B.recordCount = 0 THEN [deletes |-> <<None>>, sets |-> <<>>]
  ELSE LET thisMap == primaryKeyMap(A)
           otherMap == primaryKeyMap(B)
           gone == SelectSeq(primaryKeyOrder(A), LAMBDA k : k \notin DOMAIN otherMap)
           new == SelectSeq(primaryKeyOrder(B), LAMBDA k : k \notin DOMAIN thisMap)
           both == SelectSeq(primaryKeyOrder(B),
                             LAMBDA k : k \in DOMAIN thisMap /\ diffRecord(thisMap[k], otherMap[k]) # None)
       IN [deletes |-> gone,
           sets |-> [n \in DOMAIN new |-> AsSetObject(otherMap[new[n]])]
                    \o [n \in DOMAIN both |-> diffRecord(thisMap[both[n]], otherMap[both[n]])[1]]]

\* selectWithIndexes(where): None is the empty where, which selects every
\* defined slot.
selectWithIndexes(D, where) ==
  IF where = None THEN DbSlots(D.records)
  ELSE IF where[1] \in DOMAIN D.indexes THEN D.indexes[where[1]]
  ELSE {}

\* The index after the slots gone stopped holding, and the slots come began
\* to hold, the key values their records carry; a key with no slot is dropped.
reindexKeepsGone(indexes, records, gone, come) ==
  LET keyed(slots, k) == {i \in slots : records[i] # None /\ records[i][1].id = Some(k)}
      held(k) == (IF k \in DOMAIN indexes THEN indexes[k] ELSE {}) \cup keyed(come, k)
      ks == DOMAIN indexes \cup {records[i][1].id[1] : i \in {j \in come : records[j][1].id # None}}
  IN [k \in {k \in ks : held(k) # {}} |-> held(k)]

reindex(indexes, records, gone, come) ==
  LET keyed(slots, k) == {i \in slots : records[i] # None /\ records[i][1].id = Some(k)}
      held(k) == ((IF k \in DOMAIN indexes THEN indexes[k] ELSE {}) \ keyed(gone, k)) \cup keyed(come, k)
      ks == DOMAIN indexes \cup {records[i][1].id[1] : i \in {j \in come : records[j][1].id # None}}
  IN [k \in {k \in ks : held(k) # {}} |-> held(k)]

applyDelete(D, where) ==
  LET matches == selectWithIndexes(D, where) \cap DbSlots(D.records)
  IN [D EXCEPT !.records = [i \in DOMAIN @ |-> IF i \in matches THEN None ELSE @[i]],
                !.indexes = reindex(@, D.records, matches, {}),
                !.recordCount = @ - Cardinality(matches)]

\* applyPatch of dmp on the text the patch was made from; on another text
\* the patch does not apply and the text stays.
applyStringPatch(patch, text) == IF text = patch[1] THEN patch[2] ELSE text

mergeObject(base, change) ==
  [k \in (DOMAIN base \ {k \in DOMAIN change : change[k] = 0})
         \cup {k \in DOMAIN change : change[k] # 0} |->
     IF k \in DOMAIN change THEN change[k] ELSE base[k]]

\* One column of applySetToDraft.
applySetField(current, change) ==
  IF change.op = "keep" THEN current
  ELSE IF change.op = "null" THEN None
  ELSE IF change.op = "dmp"
  THEN Some(applyStringPatch(change.v, IF current = None THEN <<>> ELSE current[1]))
  ELSE Some(change.v[1])

applySetToDraft(current, set) ==
  [id |-> current.id,
   x |-> applySetField(current.x, set.x),
   s |-> applySetField(current.s, set.s),
   m |-> IF set.m.op = "set" /\ current.m # None
         THEN Some(mergeObject(current.m[1], set.m.v[1]))
         ELSE applySetField(current.m, set.m)]

\* The record inserted for obj: string-column patches and nulls removed.
insertObj(obj) ==
  [id |-> obj.id,
   x |-> IF obj.x.op = "set" THEN Some(obj.x.v[1]) ELSE None,
   s |-> IF obj.s.op = "set" THEN Some(obj.s.v[1]) ELSE None,
   m |-> IF obj.m.op = "set" THEN Some(obj.m.v[1]) ELSE None]

\* The draft produce() works on.  assigned are the slots holding an object
\* put there during this produce: immer hands such an object out as it is,
\* not as a draft.  stiff are the assigned slots whose map column is a frozen
\* object.
Draft(D) ==
  [records |-> D.records, indexes |-> D.indexes, recordCount |-> D.recordCount,
   assigned |-> {}, stiff |-> {}, throws |-> FALSE]

\* The slots among matches whose map column takes over the object obj holds.
Adopting(D, matches, obj) ==
  {i \in matches \cap D.assigned : obj.m.op = "set" /\ D.records[i][1].m = None}

\* applySetBatch for one object of the payload: parse gives where = the
\* primary key the object carries; matching records are updated, and with no
\* match a copy { ...obj } is inserted.  Merging into the map column of an
\* assigned record writes to the object itself, which throws when frozen.
applySetBatch(D, obj) ==
  LET matches == selectWithIndexes(D, obj.id) \cap DbSlots(D.records)
      slot == Len(D.records) + 1
  IN IF matches # {}
     THEN IF obj.m.op = "set" /\ \E i \in matches \cap D.stiff : D.records[i][1].m # None
          THEN [D EXCEPT !.throws = TRUE]
          ELSE [D EXCEPT !.records = [i \in DOMAIN @ |->
                                        IF i \in matches THEN Some(applySetToDraft(@[i][1], obj))
                                        ELSE @[i]],
                         !.stiff = IF obj.frozen THEN @ \cup Adopting(D, matches, obj)
                                   ELSE @ \ Adopting(D, matches, obj)]
     ELSE [D EXCEPT !.records = Append(@, Some(insertObj(obj))),
                    !.indexes = reindex(@, Append(D.records, Some(insertObj(obj))), {}, {slot}),
                    !.recordCount = @ + 1,
                    !.assigned = @ \cup {slot},
                    !.stiff = IF obj.frozen THEN @ \cup {slot} ELSE @]

RECURSIVE applyEach(_, _, _)
applyEach(Op(_, _), D, payload) ==
  IF payload = <<>> \/ D.throws THEN D ELSE applyEach(Op, Op(D, Head(payload)), Tail(payload))

DbApplyOne(D, patch) == applyEach(applySetBatch, applyEach(applyDelete, D, patch.deletes), patch.sets)

\* What produce() returns: the new document, or None when the recipe threw.
Produced(D) ==
  IF D.throws THEN None
  ELSE Some([records |-> D.records, indexes |-> D.indexes, recordCount |-> D.recordCount])

\* applyPatchBatch(patches): one produce over all patches.
DbApplyPatchBatch(D, patches) ==
  IF Len(patches) = 0 THEN Some(D) ELSE Produced(applyEach(DbApplyOne, Draft(D), patches))

\* applyPatch(patch) == applyPatchBatch([patch])
DbApplyPatch(D, patch) == DbApplyPatchBatch(D, <<patch>>)

\* fromString of a text with at most three lines: a record with key 1, a
\* record with key 2 and a record without primary key.
DbFirst ==
  {DbRecord(Some(1), x, s, m) :
     x \in {None, Some(1)},
     s \in {None, Some(<<>>), Some(<<1>>)},
     m \in {None, Some(EmptyMap), Some(Put(EmptyMap, 1, 1)), Some(Put(Put(EmptyMap, 1, 2), 2, 1))}}

DbSecond == {DbRecord(Some(2), x, None, None) : x \in {None, Some(1)}}

DbKeyless == {DbRecord(None, Some(1), None, None)}

DbLines(S) == {<<>>} \cup {<<Some(r)>> : r \in S}

DbDocs == {DbDocument(a \o b \o c) : a \in DbLines(DbFirst), b \in DbLines(DbSecond), c \in DbLines(DbKeyless)}

RoundTripInit ==
  /\ NoObjects
  /\ call \in [a : DbDocs, b : DbDocs, out : {None}]

RoundTripNext == Return(DbApplyPatch(call.a, DbMakePatch(call.a, call.b)))

\* a.applyPatch(a.makePatch(b)) for table documents a and b.
SpecRoundTrip == RoundTripInit /\ [][RoundTripNext]_vars

\* C27: for the table codec and every pair of documents a and b over the
\* same primary keys, a.applyPatch(a.makePatch(b)) is equal (isEqual) to b,
\* also when b is empty, when records are added, removed or changed, and
\* when string-column and map fields change.
C27_RoundTrip == Returned => (call.out[1] # None /\ DbIsEqual(call.out[1][1], call.b))

\* ------------------------------------------------ batch and one-by-one apply
\* The documents patches are made between, and applied to.
BatchDocs ==
  {DbDocument(lines) : lines \in
     {<<>>, <<Some(DbRecord(None, Some(1), None, None))>>, <<Some(DbRecord(Some(2), None, None, None))>>}
     \cup {<<Some(DbRecord(Some(1), None, s, m))>> :
             s \in {None, Some(<<1>>)},
             m \in {None, Some(Put(EmptyMap, 1, 1)), Some(Put(Put(EmptyMap, 1, 2), 2, 1))}}}

\* The patch p after a produce has returned a document holding its objects
\* (the patch was applied before, or made to a document produce returned).
Frozen(p) == [p EXCEPT !.sets = [n \in DOMAIN @ |-> [@[n] EXCEPT !.frozen = TRUE]]]

BatchPatches ==
  {DbMakePatch(a, b) : a \in BatchDocs, b \in BatchDocs}
  \cup {Frozen(DbMakePatch(a, b)) : a \in BatchDocs, b \in BatchDocs}

\* The loop of applyAllValue that caches every step: applyPatch per patch.
RECURSIVE applyOneByOne(_, _)
applyOneByOne(D, patches) ==
  IF patches = <<>> THEN Some(D)
  ELSE IF DbApplyPatch(D, Head(patches)) = None THEN None
  ELSE applyOneByOne(DbApplyPatch(D, Head(patches))[1], Tail(patches))

BatchInit ==
  /\ NoObjects
  /\ \E doc \in BatchDocs, patches \in {<<>>} \cup {<<p>> : p \in BatchPatches} \cup (BatchPatches \X BatchPatches) :
       call = [doc |-> doc, patches |-> patches, out |-> None]

BatchNext ==
  Return([batch |-> DbApplyPatchBatch(call.doc, call.patches),
          oneByOne |-> applyOneByOne(call.doc, call.patches)])

\* The two ways value() replays the same patches on the same document.
SpecBatch == BatchInit /\ [][BatchNext]_vars

\* C28: for the table codec applyPatchBatch(doc, [p1..pn]) returns a document
\* equal to applying p1..pn one after another with applyPatch, so the batch
\* path and the one-by-one path of value() agree on the same patches.
C28_BatchEqual ==
  (Returned /\ call.out[1].oneByOne # None) =>
    /\ call.out[1].batch # None
    /\ DbIsEqual(call.out[1].batch[1], call.out[1].oneByOne[1])
    /\ DbToString(call.out[1].batch[1]) = DbToString(call.out[1].oneByOne[1])

\* ------------------------------------------------------------------ upsert
UpsertObjects == {AsSetObject(r) : r \in DbKeyless \cup DbSecond}

UpsertInit ==
  /\ NoObjects
  /\ call \in [doc : DbDocs, obj : UpsertObjects, out : {None}]

\* applyPatch([1, [obj]]): the upsert of one object.
UpsertNext == Return(DbApplyPatch(call.doc, [deletes |-> <<>>, sets |-> <<call.obj>>]))

SpecUpsert == UpsertInit /\ [][UpsertNext]_vars

\* C29: in a table upsert a record that carries no primary-key field is
\* inserted as a new record and never modifies an existing record.
C29_KeylessInserted ==
  (Returned /\ call.obj.id = None) =>
    /\ call.out[1] # None
    /\ call.out[1][1].recordCount = call.doc.recordCount + 1
    /\ \A i \in DOMAIN call.doc.records : call.out[1][1].records[i] = call.doc.records[i]


\* ---------------------------------------------------------------------------
\* Patch ids (patch-id.ts).  A number is written here by its base-36 digits,
\* least significant first and without leading zeros (<<>> is 0), together
\* with a flag telling whether it has a fractional part: 36^11 does not fit the
\* integers TLC computes with.  A string is a sequence of characters; the
\* characters 0..35 are the digits "0".."9","a".."z" and DELIM is "_".
\* ---------------------------------------------------------------------------

Radix == 36

TIME36_WIDTH == 11

DELIM == 36

MaxDigits == 12

MaxClientId == 2

Reversed(s) == [i \in 1..Len(s) |-> s[Len(s) + 1 - i]]

\* Math.floor: the fractional part is dropped.
floor(timeMs) == timeMs.int

\* Number.prototype.toString(36) of a non-negative integer.
toString36(n) == IF n = <<>> THEN <<0>> ELSE Reversed(n)

padStart(s, width, ch) == IF Len(s) >= width THEN s ELSE [i \in 1..(width - Len(s)) |-> ch] \o s

RECURSIVE leadingDigits(_)
leadingDigits(s) == IF s = <<>> \/ Head(s) >= Radix THEN <<>> ELSE <<Head(s)>> \o leadingDigits(Tail(s))

RECURSIVE withoutZeros(_)
withoutZeros(s) == IF s # <<>> /\ Head(s) = 0 THEN withoutZeros(Tail(s)) ELSE s

\* Number.parseInt(s, 36): None is NaN.
parseInt36(s) == IF leadingDigits(s) = <<>> THEN None ELSE Some(Reversed(withoutZeros(leadingDigits(s))))

\* encodePatchId: None when it throws.
encodePatchId(timeMs, clientId) ==
  IF clientId = <<>> THEN None
  ELSE Some(padStart(toString36(floor(timeMs)), TIME36_WIDTH, 0) \o <<DELIM>> \o clientId)

\* decodePatchId: None when it throws.
decodePatchId(id) ==
  IF Len(id) < TIME36_WIDTH + 2 THEN None
  ELSE IF id[TIME36_WIDTH + 1] # DELIM THEN None
  ELSE IF parseInt36(SubSeq(id, 1, TIME36_WIDTH)) = None THEN None
  ELSE Some([timeMs |-> parseInt36(SubSeq(id, 1, TIME36_WIDTH))[1], clientId |-> SubSeq(id, TIME36_WIDTH + 2, Len(id))])

\* The numbers tried: 0, and for every length up to MaxDigits the numbers whose
\* leading digit, middle digits and last digit are drawn from a few digits.
Written(n, first, fill, last) == [i \in 1..n |-> IF i = n THEN first ELSE IF i = 1 THEN last ELSE fill]

PatchIdTimes == {<<>>} \cup {Written(n, first, fill, last) : n \in 1..MaxDigits, first \in {1, 35}, fill \in {0, 35}, last \in {0, 1, 35}}

PatchIdChars == {1, 10, DELIM}

PatchIdClients == UNION {[1..n -> PatchIdChars] : n \in 1..MaxClientId}

PatchIdInit ==
  /\ NoObjects
  /\ call \in [timeMs : [int : PatchIdTimes, frac : BOOLEAN], clientId : PatchIdClients, out : {None}]

PatchIdNext == Return(IF encodePatchId(call.timeMs, call.clientId) = None THEN None ELSE decodePatchId(encodePatchId(call.timeMs, call.clientId)[1]))

SpecPatchId == PatchIdInit /\ [][PatchIdNext]_vars

\* C30: decoding an encoded id returns the floor of the time and the same
\* clientId, for every finite time >= 0 and every non-empty clientId, also one
\* that contains "_".
C30_PatchIdRoundTrip ==
  Returned => call.out[1] = Some([timeMs |-> floor(call.timeMs), clientId |-> call.clientId])


\* ---------------------------------------------------------------------------
\* comparePatchId: ids are compared as strings, character by character by
\* code unit; "0".."9" are 48..57, "_" is 95 and "a".."z" are 97..122.
\* ---------------------------------------------------------------------------

charCode(ch) == IF ch < 10 THEN 48 + ch ELSE IF ch = DELIM THEN 95 ELSE 87 + ch

RECURSIVE stringLess(_, _)
stringLess(a, b) == IF b = <<>> THEN FALSE ELSE IF a = <<>> THEN TRUE ELSE IF Head(a) # Head(b) THEN charCode(Head(a)) < charCode(Head(b)) ELSE stringLess(Tail(a), Tail(b))

comparePatchId(a, b) == IF a = b THEN 0 ELSE IF stringLess(a, b) THEN -1 ELSE 1

OrderTimes == {<<>>, <<1>>, <<35>>, Written(2, 1, 0, 0), Written(TIME36_WIDTH, 1, 0, 0), Written(TIME36_WIDTH, 35, 35, 35), Written(MaxDigits, 1, 0, 0), Written(MaxDigits, 1, 0, 1)}

OrderClients == {<<1>>, <<10>>, <<DELIM>>}

\* The ids encodePatchId hands out.
OrderIds == {encodePatchId([int |-> t, frac |-> FALSE], c)[1] : t \in OrderTimes, c \in OrderClients}

OrderInit ==
  /\ NoObjects
  /\ call \in [a : OrderIds, b : OrderIds, c : OrderIds, out : {None}]

OrderNext == Return([ab |-> comparePatchId(call.a, call.b), bc |-> comparePatchId(call.b, call.c), decoded |-> <<decodePatchId(call.a), decodePatchId(call.b), decodePatchId(call.c)>>])

SpecOrder == OrderInit /\ [][OrderNext]_vars

\* m <= n for two numbers written by their digits, least significant first.
RECURSIVE NumberLeq(_, _)
NumberLeq(m, n) ==
  IF Len(m) # Len(n) THEN Len(m) < Len(n)
  ELSE IF m = <<>> THEN TRUE
  ELSE IF m[Len(m)] # n[Len(n)] THEN m[Len(m)] < n[Len(n)]
  ELSE NumberLeq(SubSeq(m, 1, Len(m) - 1), SubSeq(n, 1, Len(n) - 1))

\* C31: for three ids a < b < c under string comparison the decoded times are
\* non-decreasing.
C31_OrderedTimes ==
  (Returned /\ call.out[1].ab = -1 /\ call.out[1].bc = -1) =>
    /\ \A i \in 1..3 : call.out[1].decoded[i] # None
    /\ \A i \in 1..2 : NumberLeq(call.out[1].decoded[i][1].timeMs, call.out[1].decoded[i + 1][1].timeMs)


\* C32: every patch appended to the store, before, during or after a
\* session's init(), reaches that session's graph: once the session is
\* initialised and every envelope published to its subscription has been
\* handled, each patch of the store is in its graph.
C32_NothingLost ==
  \A s \in Sessions :
    (Ready(s) /\ cursor[s] = Len(log)) => \A i \in 1..Len(log) : Has(sess[s].graph, log[i].time)


\* C33: the id of every envelope a session creates, by commit or for an
\* external file change, is greater than the id of every patch in that
\* session's graph at that moment, hence greater than each of its parents.
C33_FreshIds ==
  [][\A s \in Sessions :
       (Len(log') = Len(log) + 1 /\ sess'[s] # sess[s]) =>
         /\ \A u \in Times(sess[s].graph) : log'[Len(log')].time > u
         /\ \A i \in DOMAIN log'[Len(log')].parents : log'[Len(log')].parents[i] < log'[Len(log')].time]_vars

\* Session 1 has created a patch on top of a patch of the other participant.
C33_Witness ==
  /\ Len(sess[1].localTimes) > 0
  /\ \E u \in Times(sess[1].graph) :
       /\ \A i \in DOMAIN sess[1].localTimes : sess[1].localTimes[i] # u
       /\ u < sess[1].localTimes[Len(sess[1].localTimes)]


EchoNext ==
  \/ SoloCommit(1)
  \/ FileSessionStep(1)
  \/ WorkingCopyStep(1)
  \/ RemoteStep(2)
  \/ \E i \in DOMAIN log : Redeliver(1, i, None)

\* One session with undo, redo and a staged working copy, to which the store
\* delivers every envelope, its own included, and redelivers them.
SpecEcho == SoloInit /\ [][EchoNext]_vars

\* The parts of a session that a known envelope leaves alone.
EchoView(S) == <<S.graph.patches, S.graph.children, S.localTimes, S.undoPtr, S.committedDoc, S.workingCopy, S.doc>>

StagedNext ==
  \/ FileCommit(1, {1}, MaxFileLog)
  \/ FileSessionStep(1)
  \/ FileNotify(1)
  \/ FileReadSame(1)
  \/ FileRead(1, MaxFileLog)
  \/ ExternalStep
  \/ FileCommit(2, {1}, MaxFileLog)
  \/ \E d \in Toggles(sess[1].doc, {NumKeys}) : SetWorkingCopy(1, d)

\* The session watching a file somebody else modifies, with drafts staged on
\* a record nobody commits, while the writes it has started are still under
\* way.
SpecStaged == FileInit /\ [][StagedNext]_vars

StagedConsistent ==
  \A s \in Sessions :
    sess[s].workingCopy # None =>
      /\ sess[s].workingCopy[1].base = sess[s].committedDoc
      /\ sess[s].doc = sess[s].workingCopy[1].draft

Rebased(S, T) ==
  /\ T.workingCopy # None
  /\ T.workingCopy[1].draft = rebaseDraft(S.workingCopy[1].base, S.workingCopy[1].draft, T.committedDoc)

\* C35: while a working copy is staged, its base is the committed document and
\* the visible document is its draft, whatever setWorkingCopy, applyRemote,
\* undo, redo and external file changes came before; each applied remote
\* patch replaces the draft by rebaseDraft(old base, old draft, new committed
\* document).
C35_StagedDraft ==
  /\ []StagedConsistent
  /\ [][(cursor'[1] = cursor[1] + 1 /\ sess[1].workingCopy # None) => Rebased(sess[1], sess'[1])]_vars

\* A draft staged on the second record has been carried over a patch of the
\* other participant that inserted the first.
C35_Witness ==
  /\ sess[1].workingCopy # None
  /\ sess[1].workingCopy[1] = [base |-> {1}, draft |-> {1, NumKeys}]
  /\ sess[1].localTimes = <<>>
  /\ cursor[1] >= 1


\* C36: a file-change notification received while suppressFileChanges > 0
\* only decrements the counter: the file is not read, no patch is added to the
\* graph or appended to the store, and the document, localTimes and undoPtr
\* are unchanged.
C36_SuppressedNotification ==
  [][\A s \in Sessions :
       (file'.notes < file.notes /\ sess[s].fileAdapter /\ sess[s].suppressFileChanges > 0) =>
         /\ sess'[s] = [sess[s] EXCEPT !.suppressFileChanges = @ - 1]
         /\ log' = log
         /\ file'.content = file.content]_vars

\* The notification of the session's own write, the only modification the
\* file has seen, has been received while that write was still under way.
C36_Witness ==
  /\ file.externals = 0
  /\ file.notes = 0
  /\ sess[1].suppressFileChanges = 0
  /\ \E i \in DOMAIN sess[1].flights : sess[1].flights[i].applied


\* fileAdapter.write has rejected in this step: the session has emitted
\* file-error, which file.failures counts.
WriteRejected == file'.failures = file.failures + 1

QueueContinues(S, T) ==
  /\ T.persistedContent = S.persistedContent
  /\ IF S.dirtyContent # None
     THEN /\ T.pendingWrite
          /\ T.dirtyContent = None
          /\ \E i \in DOMAIN T.flights : T.flights[i].content = S.dirtyContent[1] /\ ~T.flights[i].applied
     ELSE ~T.pendingWrite

QueueNotBlocked ==
  \A s \in Sessions : sess[s].flights = <<>> => (~sess[s].pendingWrite /\ sess[s].dirtyContent = None)

\* C37: when fileAdapter.write rejects, persistedContent is unchanged and the
\* content queued meanwhile is written next; the pending-write token is
\* cleared once no dirty content is left, so the queue never stays blocked.
C37_RejectedWrite ==
  /\ [][WriteRejected => QueueContinues(sess[1], sess'[1])]_vars
  /\ []QueueNotBlocked

\* After a write that rejected before any write succeeded, the content queued
\* meanwhile has been written to the file.
C37_Witness ==
  /\ file.failures = 1
  /\ Len(sess[1].flights) = 1
  /\ sess[1].flights[1].lastOk = None
  /\ sess[1].flights[1].applied


\* C40: suppressFileChanges is never negative, never exceeds 1, and is 0
\* whenever no file write is in flight, for every interleaving of writes,
\* write completions and file-change notifications.
C40_SuppressRange ==
  \A s \in Sessions :
    /\ sess[s].suppressFileChanges \in {0, 1}
    /\ sess[s].flights = <<>> => sess[s].suppressFileChanges = 0

\* A write of the session has completed and its notification has been
\* received, nobody else having touched the file.
C40_Witness ==
  /\ sess[1].flights = <<>>
  /\ sess[1].lastOk # None
  /\ sess[1].reads = <<>>
  /\ sess[1].suppressFileChanges = 0
  /\ file.notes = 0
  /\ file.externals = 0
  /\ file.failures = 0


\* The answer r of value() on G is the document a graph that has never
\* answered a request computes, and G is left as it was.
BypassesCaches(G, r, fresh) == r.g = G /\ r.doc = fresh.doc

\* C38: value() with a non-empty withoutTimes neither reads nor writes the
\* value, reachability or merge caches: its result equals an uncached replay
\* and later calls without exclusions are unaffected by it.
C38_ExclusionsBypassCaches ==
  \A t \in {0} \cup Times(pg) : \A w \in (SUBSET Times(pg)) \ {{}} :
    BypassesCaches(pg, value(pg, t, w), value(FreshGraph(pg), t, w))

\* value() has answered requests, the caches hold entries, and excluding a
\* patch changes the document.
C38_Witness ==
  /\ ~pgLastAdd
  /\ DOMAIN pg.valueCache # {}
  /\ DOMAIN pg.reachabilityCache # {}
  /\ \E x \in Times(pg) : value(pg, 0, {x}).doc # value(pg, 0, {}).doc


MaxBatches == 2

\* The where conditions and the set objects of the patches tried: the two
\* key values and no key; objects that set, keep or remove the column x.
IndexWheres == {None, Some(1), Some(2)}

IndexObjects == {[frozen |-> FALSE, id |-> id, x |-> x, s |-> Keep, m |-> Keep] : id \in IndexWheres, x \in {Keep, Null, Set(1)}}

IndexPatches == {[deletes |-> d, sets |-> o] : d \in {<<>>} \cup {<<w>> : w \in IndexWheres}, o \in {<<>>} \cup {<<obj>> : obj \in IndexObjects}} \ {[deletes |-> <<>>, sets |-> <<>>]}

\* fromString of texts that also hold a primary key twice.
IndexDocs == {DbDocument(lines) : lines \in {<<>>, <<Some(DbRecord(Some(1), None, None, None))>>, <<Some(DbRecord(Some(1), None, None, None)), Some(DbRecord(Some(1), Some(1), None, None))>>, <<Some(DbRecord(Some(1), None, None, None)), Some(DbRecord(Some(2), None, None, None))>>, <<Some(DbRecord(None, Some(1), None, None)), Some(DbRecord(Some(2), Some(1), None, None))>>}}

IndexInit ==
  /\ NoObjects
  /\ call \in [doc : IndexDocs, batches : {0}]

\* doc = doc.applyPatchBatch(patches)
IndexApply(patches) ==
  /\ call.batches < MaxBatches
  /\ DbApplyPatchBatch(call.doc, patches) # None
  /\ call' = [doc |-> DbApplyPatchBatch(call.doc, patches)[1], batches |-> call.batches + 1]
  /\ UNCHANGED <<pg, pgValued, pgLastAdd, sessVars>>

IndexNext == \E p \in IndexPatches : IndexApply(<<p>>) \/ \E q \in IndexPatches : IndexApply(<<p, q>>)

SpecIndex == IndexInit /\ [][IndexNext]_vars

\* C39: after applyPatchBatch, for any sequence of upserts and deletes, the
\* primary-key index maps each key value to exactly the slots of the live
\* records holding it and recordCount is the number of live records: the
\* indexes maintained step by step equal the indexes rebuilt from the records.
C39_IndexesRebuilt ==
  call.batches > 0 =>
    /\ call.doc.indexes = rebuildIndexes(call.doc.records)
    /\ call.doc.recordCount = Cardinality(DbSlots(call.doc.records))

\* Two batches have left a record in a slot behind a deleted one, next to a
\* key value held by no record any more.
C39_Witness ==
  /\ call.batches = MaxBatches
  /\ \E i \in DOMAIN call.doc.records : call.doc.records[i] = None /\ \E j \in DbSlots(call.doc.records) : j > i
  /\ DOMAIN call.doc.indexes = {2}
====
